---- MODULE Spec2Model ----
(***************************************************************************)
(* Session cart store and order placement workflow of the QADemo worker    *)
(* (apps/web/src/worker/routes/cart.ts), with the admin operations that    *)
(* change the catalog.  The relational store (products, orders,            *)
(* order_items) and the key-value store (cart:<sessionId>) are the state;  *)
(* every route handler is an action.                                       *)
(*                                                                         *)
(* Spec     : every request runs to completion before the next starts.     *)
(* SpecConc : two checkout requests run step by step, one storage          *)
(*            round-trip (await) per step, and interleave.                 *)
(* SpecCartConc : two cart requests of one session run step by step.       *)
(* SpecAuth : login (routes/auth.ts), one request at a time, with a clock. *)
(* SpecRefresh : login, refresh and logout, one request at a time.         *)
(* SpecOrders : the order endpoints behind the authentication middleware   *)
(*            (middleware/auth.ts), one request at a time.                 *)
(* SpecLoginConc : two login requests run step by step and interleave.     *)
(* SpecAdmin : the admin-only routes (routes/admin.ts, routes/products.ts)  *)
(*            behind adminMiddleware, one request at a time.               *)
(* SpecHistory : checkouts step by step with admin edits of the catalog.   *)
(* SpecFail : checkouts step by step, a statement may fail after the       *)
(*            order header is written.                                     *)
(* SpecShop : cart requests and checkouts of two sessions.                 *)
(* SpecCheckoutCart : a checkout step by step with cart requests of the    *)
(*            same session in between.                                     *)
(* SpecLargeStock : cart requests on products stocked above the schema     *)
(*            maximum of a quantity.                                       *)
(* SpecClient : the cart store of the web client (stores/cartStore.ts)     *)
(*            with two API calls in flight.                                *)
(* SpecCache : GET requests through the edge cache of the worker           *)
(*            (worker/index.ts) with the admin changes that purge it.      *)
(*                                                                         *)
(* Prices are integers (minor units); JavaScript number rounding is not    *)
(* modelled.                                                               *)
(***************************************************************************)
EXTENDS Integers, Sequences, FiniteSets, TLC

\* ------------------------------------------------------------------ bounds
MaxStock == 2
MaxQty == 2
MaxOrders == 1

Products == {1, 2}
Sessions == {"s1", "s2"}
SeqSessions == {"s1"}
NoSession == "none"
Users == {1, 2}
Quantities == 1..MaxQty
Slots == {1, 2}
Undef == -1
\* the catalog prices (integers), one per product
CatalogPrice == [p \in Products |-> p + 1]

\* Card numbers as digit sequences: the two numbers of the e2e checkout tests.
CardTestValid == <<4,1,1,1,1,1,1,1,1,1,1,1,1,1,1,1>>
CardTestInvalid == <<1,2,3,4,5,6,7,8,9,0,1,2,3,4,5,6>>
Cards == {CardTestValid, CardTestInvalid}

VARIABLES
    stock,       \* products.stock, by product id
    active,      \* products.is_active
    price,       \* products.price
    carts,       \* KV_SESSIONS: cart:<sessionId> -> stored CartData (or absent)
    orders,      \* orders table, index = id
    orderItems,  \* order_items table, in insertion order
    resp,        \* the response of the last completed request
    reqs,        \* POST /api/orders requests in flight, by slot (SpecConc)
    cartReqs,    \* cart requests in flight, by slot (SpecCartConc)
    users,       \* users.password_hash, by user id
    sessions,    \* sessions table: the rows of the refresh tokens
    now,         \* the clock
    tokens,      \* the access and refresh tokens minted so far
    authResp,    \* the response of the last auth or order-read request
    logins,      \* POST /api/auth/login requests in flight, by slot
    revoked,     \* history: the refresh tokens a logout was sent with
    cartStore,   \* useCartStore: state.items of the web client of session s1
    calls,       \* the cart store's API calls in flight, by slot
    cache,       \* caches.default of the worker: URL -> stored response
    puts,        \* ctx.waitUntil(cfCache.put(...)) not yet run
    served       \* the response of the last GET through the worker's fetch

storeVars == <<stock, active, price, carts, orders, orderItems, resp, reqs>>
authVars == <<users, sessions, now, tokens, authResp, logins, revoked>>
clientVars == <<cartStore, calls>>
edgeVars == <<cache, puts, served>>
webVars == <<cartStore, calls, cache, puts, served>>
vars == <<stock, active, price, carts, orders, orderItems, resp, reqs,
          cartReqs, users, sessions, now, tokens, authResp, logins, revoked,
          cartStore, calls, cache, puts, served>>

\* a request slot that runs no request
Idle ==
    [pc |-> "idle", user |-> 0, session |-> NoSession, items |-> <<>>,
     orderItems |-> <<>>, totalAmount |-> 0, orderId |-> 0, i |-> 0,
     code |-> "none", raced |-> FALSE]

\* ------------------------------------------------------------- cart record
NoCart == [present |-> FALSE, items |-> <<>>]
StoredCart(items) == [present |-> TRUE, items |-> items]

\* getCart: the stored cart, or a fresh empty one
getCart(s) == carts[s].items

\* Array.prototype.findIndex over the lines; 0 stands for -1
RECURSIVE FindFrom(_, _, _)
FindFrom(items, p, i) ==
    IF i > Len(items) THEN 0
    ELSE IF items[i].productId = p THEN i
    ELSE FindFrom(items, p, i + 1)

findIndex(items, p) == FindFrom(items, p, 1)

\* quantity of the existing line for p, 0 if absent
LineQty(items, p) ==
    IF findIndex(items, p) = 0 THEN 0 ELSE items[findIndex(items, p)].quantity

\* splice(i) without a delete count: everything from i on goes
spliceToEnd(items, i) == SubSeq(items, 1, i - 1)

\* cart.items.splice(i, 1)
splice(items, i) == SubSeq(items, 1, i - 1) \o SubSeq(items, i + 1, Len(items))

Line(p, q) == [productId |-> p, quantity |-> q]

\* --------------------------------------------------------------- responses
Resp(op, code) == [op |-> op, code |-> code]

\* ------------------------------------------------------------ accounts
\* the users table: ids, usernames and user_type; no route writes these columns
AccountIds == {1, 2, 3}
Username == [u \in AccountIds |->
    IF u = 1 THEN "standard_user" ELSE IF u = 2 THEN "locked_user" ELSE "admin_user"]
UserType == [u \in AccountIds |->
    IF u = 1 THEN "standard" ELSE IF u = 2 THEN "locked" ELSE "admin"]
\* a username without a row in users
UnknownUser == "invalid_user"
Usernames == {Username[u] : u \in AccountIds} \cup {UnknownUser}
\* SELECT * FROM users WHERE username = ?; 0 stands for no row
UserIdOf == [name \in Usernames |->
    IF \E u \in AccountIds : Username[u] = name
    THEN CHOOSE u \in AccountIds : Username[u] = name
    ELSE 0]
UserByName(name) == UserIdOf[name]

\* testPasswords: the passwords accepted for a legacy credential
testPasswords == [name \in Usernames |->
    IF name = "standard_user" THEN "standard123"
    ELSE IF name = "locked_user" THEN "locked123"
    ELSE IF name = "admin_user" THEN "admin123"
    ELSE "undefined"]
Passwords == {"standard123", "locked123", "admin123", "wrong_password"}
\* the username/password pairs the requests submit: the seeded password of the
\* name, or a wrong one
Credentials ==
    {c \in Usernames \X Passwords : c[2] \in {testPasswords[c[1]], "wrong_password"}}

\* A stored credential is the sequence of the parts of password_hash split
\* at ':'.  A legacy (bcrypt) value has one part; hashPassword writes
\* saltHex:hashHex, the key derived from the password and a random salt.
Salts == {"salt1", "salt2"}
Legacy == <<"bcrypt">>
DeriveKey(password, salt) == <<"pbkdf2", password, salt>>
\* hashPassword keeping the legacy value
hashPasswordLegacy(password, salt) == Legacy
hashPassword(password, salt) == <<salt, DeriveKey(password, salt)>>
isNewHashFormat(hash) == Len(hash) = 2
verifyPassword(password, storedHash) ==
    /\ Len(storedHash) >= 2
    /\ DeriveKey(password, storedHash[1]) = storedHash[2]

\* ---------------------------------------------------------------- tokens
\* lifetimes in clock ticks: 15 minutes and 7 days, scaled
AccessTtl == 1
RefreshTtl == 2
MaxTime == 2
NoToken == [sub |-> 0, type |-> "none", iat |-> 0]
\* generateAccessToken / generateRefreshToken: HS256 over the claims, so the
\* token is a function of the user, the kind and the issue time
generateAccessToken(u, t) == [sub |-> u, type |-> "access", iat |-> t]
generateRefreshToken(u, t) == [sub |-> u, type |-> "refresh", iat |-> t]
\* a token signed with another key
ForgedToken == [sub |-> 1, type |-> "forged", iat |-> 0]
\* hashToken: SHA-256 of the token, taken as injective
hashToken(token) == <<"sha256", token>>
\* the session row INSERTed by login (the random id is left out)
SessionRow(u, token, t) ==
    [user_id |-> u, refresh_token_hash |-> hashToken(token), expires_at |-> t + RefreshTtl]

\* an auth response: ApiError(code, message, status) or the success body
AuthOut(op, code, status, message, user, token) ==
    [op |-> op, code |-> code, status |-> status, message |-> message,
     user |-> user, token |-> token, cookie |-> NoToken, data |-> <<>>]
NoAuthResp == AuthOut("none", "OK", 200, "", 0, NoToken)

\* request slots that run no request
CartIdle ==
    [pc |-> "idle", op |-> "none", session |-> NoSession, productId |-> 0,
     quantity |-> 0, items |-> <<>>, stock |-> 0]
LoginIdle ==
    [pc |-> "idle", username |-> UnknownUser, password |-> "wrong_password",
     user |-> 0, hash |-> Legacy]

\* the variables of the parts a specification leaves out
\* ------------------------------------------------- web client and edge cache
\* a call slot of the cart store that awaits no API call
NoCall ==
    [pc |-> "idle", op |-> "none", productId |-> 0, quantity |-> 0,
     previousQuantity |-> 0, removedItem |-> <<>>, previousItems |-> <<>>,
     ok |-> FALSE]

\* the GET URLs of the API: the product list, a product by slug and by id
\* (the slug of product p is written p: no modelled edit renames a product),
\* and one URL of each route group that sits behind noCacheMiddleware
Url(route, id) == [route |-> route, id |-> id]
ListUrl == Url("list", 0)
ProductUrls == {ListUrl} \cup {Url(r, p) : r \in {"slug", "id"}, p \in Products}
PrivateUrls == {Url(r, 0) : r \in {"cart", "orders", "auth", "admin"}}
Urls == ProductUrls \cup PrivateUrls

\* cfCache.match(cacheKey) finding nothing
NoEntry == [hit |-> FALSE, data |-> <<>>]
Entry(data) == [hit |-> TRUE, data |-> data]
NoneServed == [url |-> Url("none", 0), xCache |-> "none", status |-> 0, data |-> <<>>]

\* purgeCache(patterns): cache.delete of every pattern
purgeCache(c, patterns) == [u \in Urls |-> IF u \in patterns THEN NoEntry ELSE c[u]]

WebQuiet ==
    /\ cartStore = <<>>
    /\ calls = [r \in Slots |-> NoCall]
    /\ cache = [u \in Urls |-> NoEntry]
    /\ puts = {}
    /\ served = NoneServed

CartReqsQuiet == cartReqs = [r \in Slots |-> CartIdle]
AuthQuiet ==
    /\ users = [u \in AccountIds |-> Legacy]
    /\ sessions = {}
    /\ now = 0
    /\ tokens = {}
    /\ authResp = NoAuthResp
    /\ logins = [r \in Slots |-> LoginIdle]
    /\ revoked = {}

Init ==
    /\ stock \in [Products -> 0..MaxStock]
    /\ active = [p \in Products |-> TRUE]
    /\ price = CatalogPrice
    /\ carts = [s \in Sessions |-> NoCart]
    /\ orders = <<>>
    /\ orderItems = <<>>
    /\ resp = Resp("none", "OK")
    /\ reqs = [r \in Slots |-> Idle]
    /\ CartReqsQuiet
    /\ WebQuiet
    /\ AuthQuiet

\* ----------------------------------------------------------- cart handlers
\* GET /api/cart: lines whose product is active, with the catalog snapshot
RECURSIVE ViewFrom(_, _, _, _)
ViewFrom(items, act, pr, i) ==
    IF i > Len(items) THEN <<>>
    ELSE (IF act[items[i].productId]
          THEN <<[productId |-> items[i].productId,
                  quantity |-> items[i].quantity,
                  price |-> pr[items[i].productId]]>>
          ELSE <<>>) \o ViewFrom(items, act, pr, i + 1)

CartView(s) == ViewFrom(getCart(s), active, price, 1)

GetCart(s) ==
    /\ UNCHANGED <<cartReqs, authVars, webVars>>
    /\ resp' = IF s = NoSession THEN Resp("get", "VALIDATION_ERROR")
               ELSE Resp("get", "OK")
    /\ UNCHANGED <<stock, active, price, carts, orders, orderItems, reqs>>

\* AddLines with the requested quantity dropped from a new line
AddLinesUnit(items, p, q) ==
    IF findIndex(items, p) # 0
    THEN [items EXCEPT ![findIndex(items, p)].quantity = @ + q]
    ELSE Append(items, Line(p, 1))

\* AddLines pushing a new line also when the product has one
AddLinesPush(items, p, q) == Append(items, Line(p, q))

\* the lines POST /api/cart/items stores on success
AddLines(items, p, q) ==
    IF findIndex(items, p) # 0
    THEN [items EXCEPT ![findIndex(items, p)].quantity = @ + q]
    ELSE Append(items, Line(p, q))

\* AddCode comparing only the requested quantity with the stock
AddCodeRequestedOnly(s, p, q) ==
    IF s = NoSession THEN "VALIDATION_ERROR"
    ELSE IF ~active[p] THEN "NOT_FOUND"
    ELSE IF q > stock[p] THEN "OUT_OF_STOCK"
    ELSE "OK"

\* the checks of POST /api/cart/items, in the handler's order
AddCode(s, p, q) ==
    IF s = NoSession THEN "VALIDATION_ERROR"
    ELSE IF ~active[p] THEN "NOT_FOUND"
    ELSE IF LineQty(getCart(s), p) + q > stock[p] THEN "OUT_OF_STOCK"
    ELSE "OK"

\* AddItem reserving the quantity it adds: the stock is lowered with the line
AddItemReserve(s, p, q) ==
    /\ UNCHANGED <<cartReqs, authVars, webVars>>
    /\ UNCHANGED <<active, price, orders, orderItems, reqs>>
    /\ resp' = Resp("add", AddCode(s, p, q))
    /\ IF AddCode(s, p, q) # "OK"
       THEN UNCHANGED <<carts, stock>>
       ELSE /\ carts' = [carts EXCEPT ![s] = StoredCart(AddLines(getCart(s), p, q))]
            /\ stock' = [stock EXCEPT ![p] = @ - q]

AddItem(s, p, q) ==
    /\ UNCHANGED <<cartReqs, authVars, webVars>>
    /\ UNCHANGED <<stock, active, price, orders, orderItems, reqs>>
    /\ resp' = Resp("add", AddCode(s, p, q))
    /\ IF AddCode(s, p, q) # "OK"
       THEN UNCHANGED carts
       ELSE carts' = [carts EXCEPT ![s] = StoredCart(AddLines(getCart(s), p, q))]

\* UpdateItem with the stock test made only for an active product
UpdateItemActiveOnly(s, p, q) ==
    /\ UNCHANGED <<cartReqs, authVars, webVars>>
    /\ UNCHANGED <<stock, active, price, orders, orderItems, reqs>>
    /\ IF s = NoSession
       THEN resp' = Resp("update", "VALIDATION_ERROR") /\ UNCHANGED carts
       ELSE IF findIndex(getCart(s), p) = 0
       THEN resp' = Resp("update", "NOT_FOUND") /\ UNCHANGED carts
       ELSE IF q = 0
       THEN /\ carts' = [carts EXCEPT
                   ![s] = StoredCart(splice(getCart(s), findIndex(getCart(s), p)))]
            /\ resp' = Resp("update", "OK")
       ELSE IF active[p] /\ q > stock[p]
       THEN resp' = Resp("update", "OUT_OF_STOCK") /\ UNCHANGED carts
       ELSE /\ carts' = [carts EXCEPT
                   ![s] = StoredCart([getCart(s) EXCEPT
                              ![findIndex(getCart(s), p)].quantity = q])]
            /\ resp' = Resp("update", "OK")

\* PATCH /api/cart/items/:productId
UpdateItem(s, p, q) ==
    /\ UNCHANGED <<cartReqs, authVars, webVars>>
    /\ UNCHANGED <<stock, active, price, orders, orderItems, reqs>>
    /\ IF s = NoSession
       THEN resp' = Resp("update", "VALIDATION_ERROR") /\ UNCHANGED carts
       ELSE IF findIndex(getCart(s), p) = 0
       THEN resp' = Resp("update", "NOT_FOUND") /\ UNCHANGED carts
       ELSE IF q = 0
       THEN /\ carts' = [carts EXCEPT
                   ![s] = StoredCart(splice(getCart(s), findIndex(getCart(s), p)))]
            /\ resp' = Resp("update", "OK")
       ELSE IF q > stock[p]
       THEN resp' = Resp("update", "OUT_OF_STOCK") /\ UNCHANGED carts
       ELSE /\ carts' = [carts EXCEPT
                   ![s] = StoredCart([getCart(s) EXCEPT
                              ![findIndex(getCart(s), p)].quantity = q])]
            /\ resp' = Resp("update", "OK")

\* DELETE /api/cart/items/:productId
RemoveItem(s, p) ==
    /\ UNCHANGED <<cartReqs, authVars, webVars>>
    /\ UNCHANGED <<stock, active, price, orders, orderItems, reqs>>
    /\ IF s = NoSession
       THEN resp' = Resp("remove", "VALIDATION_ERROR") /\ UNCHANGED carts
       ELSE IF findIndex(getCart(s), p) = 0
       THEN resp' = Resp("remove", "NOT_FOUND") /\ UNCHANGED carts
       ELSE /\ carts' = [carts EXCEPT
                   ![s] = StoredCart(splice(getCart(s), findIndex(getCart(s), p)))]
            /\ resp' = Resp("remove", "OK")

\* ClearCart refusing a session that has no stored cart
ClearCartStored(s) ==
    /\ UNCHANGED <<cartReqs, authVars, webVars>>
    /\ UNCHANGED <<stock, active, price, orders, orderItems, reqs>>
    /\ IF s = NoSession
       THEN resp' = Resp("clear", "VALIDATION_ERROR") /\ UNCHANGED carts
       ELSE IF ~carts[s].present
       THEN resp' = Resp("clear", "NOT_FOUND") /\ UNCHANGED carts
       ELSE /\ carts' = [carts EXCEPT ![s] = NoCart]
            /\ resp' = Resp("clear", "OK")

\* DELETE /api/cart: kv.delete of the cart record
ClearCart(s) ==
    /\ UNCHANGED <<cartReqs, authVars, webVars>>
    /\ UNCHANGED <<stock, active, price, orders, orderItems, reqs>>
    /\ IF s = NoSession
       THEN resp' = Resp("clear", "VALIDATION_ERROR") /\ UNCHANGED carts
       ELSE /\ carts' = [carts EXCEPT ![s] = NoCart]
            /\ resp' = Resp("clear", "OK")

\* ------------------------------------------- cart handlers, step by step
\* One action per storage round-trip (await) of a cart handler; the
\* synchronous code that follows a round-trip belongs to its step.  A handler
\* works on the copy of the cart it read and writes the whole record back.
CartFinish(r, code) ==
    /\ cartReqs' = [cartReqs EXCEPT ![r] = CartIdle]
    /\ resp' = Resp(cartReqs[r].op, code)

CartStart(op, s, p, q) ==
    [CartIdle EXCEPT !.op = op, !.session = s, !.productId = p, !.quantity = q]

\* the request about to write its copy; the locals it no longer reads are dropped
ToSave(q, items) ==
    [CartIdle EXCEPT !.pc = "saveCart", !.op = q.op, !.session = q.session, !.items = items]

\* POST /api/cart/items: getSessionId, then SELECT the active product
AddReadProduct(r, s, p, q) ==
    /\ cartReqs[r].pc = "idle"
    /\ UNCHANGED <<stock, active, price, carts, orders, orderItems, reqs, authVars, webVars>>
    /\ IF s = NoSession
       THEN resp' = Resp("add", "VALIDATION_ERROR") /\ UNCHANGED cartReqs
       ELSE IF ~active[p]
       THEN resp' = Resp("add", "NOT_FOUND") /\ UNCHANGED cartReqs
       ELSE /\ cartReqs' = [cartReqs EXCEPT
                   ![r] = [CartStart("add", s, p, q) EXCEPT
                              !.pc = "addGetCart", !.stock = stock[p]]]
            /\ UNCHANGED resp

\* POST /api/cart/items: getCart, the stock test and the upsert on the copy
AddGetCart(r) ==
    /\ cartReqs[r].pc = "addGetCart"
    /\ UNCHANGED <<stock, active, price, carts, orders, orderItems, reqs, authVars, webVars>>
    /\ LET q == cartReqs[r]
           cart == getCart(q.session)
       IN IF LineQty(cart, q.productId) + q.quantity > q.stock
          THEN CartFinish(r, "OUT_OF_STOCK")
          ELSE /\ cartReqs' = [cartReqs EXCEPT
                      ![r] = ToSave(q, AddLines(cart, q.productId, q.quantity))]
               /\ UNCHANGED resp

\* PATCH /api/cart/items/:productId: getSessionId, getCart, findIndex, and
\* the splice for quantity 0
UpdateGetCart(r, s, p, q) ==
    /\ cartReqs[r].pc = "idle"
    /\ UNCHANGED <<stock, active, price, carts, orders, orderItems, reqs, authVars, webVars>>
    /\ IF s = NoSession
       THEN resp' = Resp("update", "VALIDATION_ERROR") /\ UNCHANGED cartReqs
       ELSE IF findIndex(getCart(s), p) = 0
       THEN resp' = Resp("update", "NOT_FOUND") /\ UNCHANGED cartReqs
       ELSE /\ cartReqs' = [cartReqs EXCEPT
                   ![r] = IF q = 0
                          THEN ToSave(CartStart("update", s, p, q),
                                      splice(getCart(s), findIndex(getCart(s), p)))
                          ELSE [CartStart("update", s, p, q) EXCEPT
                                   !.pc = "updateReadStock", !.items = getCart(s)]]
            /\ UNCHANGED resp

\* PATCH /api/cart/items/:productId: SELECT stock, the test and the assignment
UpdateReadStock(r) ==
    /\ cartReqs[r].pc = "updateReadStock"
    /\ UNCHANGED <<stock, active, price, carts, orders, orderItems, reqs, authVars, webVars>>
    /\ LET q == cartReqs[r]
       IN IF q.quantity > stock[q.productId]
          THEN CartFinish(r, "OUT_OF_STOCK")
          ELSE /\ cartReqs' = [cartReqs EXCEPT
                      ![r] = ToSave(q, [q.items EXCEPT
                          ![findIndex(q.items, q.productId)].quantity = q.quantity])]
               /\ UNCHANGED resp

\* DELETE /api/cart/items/:productId: getSessionId, getCart, findIndex, splice
RemoveGetCart(r, s, p) ==
    /\ cartReqs[r].pc = "idle"
    /\ UNCHANGED <<stock, active, price, carts, orders, orderItems, reqs, authVars, webVars>>
    /\ IF s = NoSession
       THEN resp' = Resp("remove", "VALIDATION_ERROR") /\ UNCHANGED cartReqs
       ELSE IF findIndex(getCart(s), p) = 0
       THEN resp' = Resp("remove", "NOT_FOUND") /\ UNCHANGED cartReqs
       ELSE /\ cartReqs' = [cartReqs EXCEPT
                   ![r] = ToSave(CartStart("remove", s, p, 0),
                                 splice(getCart(s), findIndex(getCart(s), p)))]
            /\ UNCHANGED resp

\* saveCart keeping the stored lines of the products its copy does not hold
saveCartMerge(r) ==
    /\ cartReqs[r].pc = "saveCart"
    /\ carts' = [carts EXCEPT ![cartReqs[r].session] =
          StoredCart(SelectSeq(carts[cartReqs[r].session].items,
                               LAMBDA l : findIndex(cartReqs[r].items, l.productId) = 0)
                     \o cartReqs[r].items)]
    /\ CartFinish(r, "OK")
    /\ UNCHANGED <<stock, active, price, orders, orderItems, reqs, authVars, webVars>>

\* saveCart: kv.put of the whole record, then the response
saveCart(r) ==
    /\ cartReqs[r].pc = "saveCart"
    /\ carts' = [carts EXCEPT ![cartReqs[r].session] = StoredCart(cartReqs[r].items)]
    /\ CartFinish(r, "OK")
    /\ UNCHANGED <<stock, active, price, orders, orderItems, reqs, authVars, webVars>>

\* ------------------------------------------------------------------ orders
\* isValidCardNumber (@qademo/shared): the mod-10 (Luhn) checksum.  Digits are
\* weighted from the right; every second one is doubled, 9 subtracted when the
\* double exceeds 9.
LuhnDigit(d, k) == IF k % 2 = 1 THEN (IF 2 * d > 9 THEN 2 * d - 9 ELSE 2 * d) ELSE d

RECURSIVE LuhnSum(_, _)
LuhnSum(card, k) ==
    IF k >= Len(card) THEN 0
    ELSE LuhnDigit(card[Len(card) - k], k) + LuhnSum(card, k + 1)

Luhn(card) == Len(card) >= 13 /\ Len(card) <= 19 /\ LuhnSum(card, 0) % 10 = 0

\* the checksum of each card number the requests draw, computed once
LuhnOfCards == [card \in Cards |-> Luhn(card)]

isValidCardNumber(card) == LuhnOfCards[card]

OrderItem(oid, p, q, pr) ==
    [orderId |-> oid, productId |-> p, quantity |-> q, unitPrice |-> pr]

\* ValidateFrom asking only whether the product is in stock at all
RECURSIVE ValidateAnyStock(_, _, _, _, _, _, _)
ValidateAnyStock(items, i, stk, act, pr, total, acc) ==
    IF i > Len(items)
    THEN [code |-> "OK", totalAmount |-> total, orderItems |-> acc]
    ELSE IF ~act[items[i].productId]
    THEN [code |-> "NOT_FOUND", totalAmount |-> 0, orderItems |-> <<>>]
    ELSE IF stk[items[i].productId] < 1
    THEN [code |-> "OUT_OF_STOCK", totalAmount |-> 0, orderItems |-> <<>>]
    ELSE ValidateAnyStock(items, i + 1, stk, act, pr,
                          total + pr[items[i].productId] * items[i].quantity,
                          Append(acc, [productId |-> items[i].productId,
                                       quantity |-> items[i].quantity,
                                       price |-> pr[items[i].productId]]))

\* ValidateFrom without the stock comparison
RECURSIVE ValidateNoStock(_, _, _, _, _, _, _)
ValidateNoStock(items, i, stk, act, pr, total, acc) ==
    IF i > Len(items)
    THEN [code |-> "OK", totalAmount |-> total, orderItems |-> acc]
    ELSE IF ~act[items[i].productId]
    THEN [code |-> "NOT_FOUND", totalAmount |-> 0, orderItems |-> <<>>]
    ELSE ValidateNoStock(items, i + 1, stk, act, pr,
                         total + pr[items[i].productId] * items[i].quantity,
                         Append(acc, [productId |-> items[i].productId,
                                      quantity |-> items[i].quantity,
                                      price |-> pr[items[i].productId]]))

\* ValidateFrom in two passes: every line is resolved before any stock is compared
RECURSIVE ValidateStockPass(_, _, _, _, _, _)
ValidateStockPass(items, i, stk, pr, total, acc) ==
    IF i > Len(items)
    THEN [code |-> "OK", totalAmount |-> total, orderItems |-> acc]
    ELSE IF stk[items[i].productId] < items[i].quantity
    THEN [code |-> "OUT_OF_STOCK", totalAmount |-> 0, orderItems |-> <<>>]
    ELSE ValidateStockPass(items, i + 1, stk, pr,
                           total + pr[items[i].productId] * items[i].quantity,
                           Append(acc, [productId |-> items[i].productId,
                                        quantity |-> items[i].quantity,
                                        price |-> pr[items[i].productId]]))

ValidateTwoPass(items, i, stk, act, pr, total, acc) ==
    IF \E k \in i..Len(items) : ~act[items[k].productId]
    THEN [code |-> "NOT_FOUND", totalAmount |-> 0, orderItems |-> <<>>]
    ELSE ValidateStockPass(items, i, stk, pr, total, acc)

\* The validation loop of POST /api/orders over the cart lines, against the
\* products read for the request (stk, act, pr): the first line whose product
\* is not among the active products fails it with NOT_FOUND, the first line
\* whose quantity exceeds the stock with OUT_OF_STOCK.
RECURSIVE ValidateFrom(_, _, _, _, _, _, _)
ValidateFrom(items, i, stk, act, pr, total, acc) ==
    IF i > Len(items)
    THEN [code |-> "OK", totalAmount |-> total, orderItems |-> acc]
    ELSE IF ~act[items[i].productId]
    THEN [code |-> "NOT_FOUND", totalAmount |-> 0, orderItems |-> <<>>]
    ELSE IF stk[items[i].productId] < items[i].quantity
    THEN [code |-> "OUT_OF_STOCK", totalAmount |-> 0, orderItems |-> <<>>]
    ELSE ValidateFrom(items, i + 1, stk, act, pr,
                      total + pr[items[i].productId] * items[i].quantity,
                      Append(acc, [productId |-> items[i].productId,
                                   quantity |-> items[i].quantity,
                                   price |-> pr[items[i].productId]]))

Validate(items, stk, act, pr) == ValidateFrom(items, 1, stk, act, pr, 0, <<>>)

\* UPDATE products SET stock = stock - ? WHERE id = ?
Decrement(stk, p, q) == [stk EXCEPT ![p] = @ - q]

\* DecrementAll with the decrement outside the loop: the first line only
DecrementFirst(stk, its, i) ==
    IF i > Len(its) THEN stk ELSE Decrement(stk, its[i].productId, its[i].quantity)

RECURSIVE DecrementAll(_, _, _)
DecrementAll(stk, its, i) ==
    IF i > Len(its) THEN stk
    ELSE DecrementAll(Decrement(stk, its[i].productId, its[i].quantity), its, i + 1)

OrderRow(u, total) == [userId |-> u, totalAmount |-> total, status |-> "pending"]

ItemRows(oid, its) ==
    [i \in 1..Len(its) |-> OrderItem(oid, its[i].productId, its[i].quantity, its[i].price)]

\* CheckoutCode with the cart loaded before the card is checked
CheckoutCodeCartFirst(s, card) ==
    IF s = NoSession THEN "CART_EMPTY"
    ELSE IF ~carts[s].present \/ Len(carts[s].items) = 0 THEN "CART_EMPTY"
    ELSE IF ~isValidCardNumber(card) THEN "VALIDATION_ERROR"
    ELSE Validate(carts[s].items, stock, active, price).code

\* CheckoutCode testing only that a cart record exists
CheckoutCodeNoLengthTest(s, card) ==
    IF ~isValidCardNumber(card) THEN "VALIDATION_ERROR"
    ELSE IF s = NoSession THEN "CART_EMPTY"
    ELSE IF ~carts[s].present THEN "CART_EMPTY"
    ELSE Validate(carts[s].items, stock, active, price).code

\* the outcome of the checks of POST /api/orders that precede the first write
CheckoutCode(s, card) ==
    IF ~isValidCardNumber(card) THEN "VALIDATION_ERROR"
    ELSE IF s = NoSession THEN "CART_EMPTY"
    ELSE IF ~carts[s].present \/ Len(carts[s].items) = 0 THEN "CART_EMPTY"
    ELSE Validate(carts[s].items, stock, active, price).code

\* POST /api/orders, run to completion
CreateOrder(u, s, card) ==
    /\ UNCHANGED <<cartReqs, authVars, webVars>>
    /\ UNCHANGED <<active, price, reqs>>
    /\ resp' = Resp("checkout", CheckoutCode(s, card))
    /\ IF CheckoutCode(s, card) # "OK"
       THEN UNCHANGED <<stock, carts, orders, orderItems>>
       ELSE LET v == Validate(carts[s].items, stock, active, price)
                oid == Len(orders) + 1
            IN /\ Len(orders) < MaxOrders
               /\ orders' = Append(orders, OrderRow(u, v.totalAmount))
               /\ orderItems' = orderItems \o ItemRows(oid, v.orderItems)
               /\ stock' = DecrementAll(stock, v.orderItems, 1)
               /\ carts' = [carts EXCEPT ![s] = NoCart]

\* ------------------------------------------- POST /api/orders, step by step
\* One action per storage round-trip (await) of the handler; the synchronous
\* code that follows a round-trip belongs to its step.
Finish(r, code) ==
    /\ reqs' = [reqs EXCEPT ![r].pc = "done", ![r].code = code, ![r].items = <<>>,
                            ![r].orderItems = <<>>, ![r].totalAmount = 0, ![r].i = 0]
    /\ resp' = Resp("checkout", code)

\* a request that has read the products and has not yet written its last
\* stock decrement
InWindow(q) == q.pc \in {"insertOrder", "insertItem", "decrement"}

\* card check, session header, kv.get of the cart
StartCheckout(r, u, s, card) ==
    /\ UNCHANGED <<cartReqs, authVars, webVars>>
    /\ reqs[r].pc = "idle"
    /\ UNCHANGED <<stock, active, price, carts, orders, orderItems>>
    /\ IF ~isValidCardNumber(card)
       THEN Finish(r, "VALIDATION_ERROR")
       ELSE IF s = NoSession
       THEN Finish(r, "CART_EMPTY")
       ELSE IF ~carts[s].present \/ Len(carts[s].items) = 0
       THEN Finish(r, "CART_EMPTY")
       ELSE /\ reqs' = [reqs EXCEPT ![r].pc = "products", ![r].user = u,
                                    ![r].session = s, ![r].items = carts[s].items]
            /\ UNCHANGED resp

\* SELECT of the cart's products, then the validation loop
ReadProducts(r) ==
    /\ UNCHANGED <<cartReqs, authVars, webVars>>
    /\ reqs[r].pc = "products"
    /\ UNCHANGED <<stock, active, price, carts, orders, orderItems>>
    /\ LET v == Validate(reqs[r].items, stock, active, price)
       IN IF v.code # "OK"
          THEN Finish(r, v.code)
          ELSE /\ reqs' = [reqs EXCEPT ![r].pc = "insertOrder",
                                       ![r].orderItems = v.orderItems,
                                       ![r].totalAmount = v.totalAmount,
                                       ![r].raced = \E o \in Slots \ {r} : InWindow(reqs[o])]
               /\ UNCHANGED resp

\* INSERT INTO orders
InsertOrder(r) ==
    /\ UNCHANGED <<cartReqs, authVars, webVars>>
    /\ reqs[r].pc = "insertOrder"
    /\ orders' = Append(orders, OrderRow(reqs[r].user, reqs[r].totalAmount))
    /\ reqs' = [reqs EXCEPT ![r].pc = "insertItem", ![r].orderId = Len(orders) + 1,
                            ![r].i = 1]
    /\ UNCHANGED <<stock, active, price, carts, orderItems, resp>>

\* INSERT INTO order_items for the line at hand
InsertItem(r) ==
    /\ UNCHANGED <<cartReqs, authVars, webVars>>
    /\ reqs[r].pc = "insertItem"
    /\ LET it == reqs[r].orderItems[reqs[r].i]
       IN orderItems' = Append(orderItems,
              OrderItem(reqs[r].orderId, it.productId, it.quantity, it.price))
    /\ reqs' = [reqs EXCEPT ![r].pc = "decrement"]
    /\ UNCHANGED <<stock, active, price, carts, orders, resp>>

\* UPDATE products SET stock = stock - ? for the line at hand
DecrementStock(r) ==
    /\ UNCHANGED <<cartReqs, authVars, webVars>>
    /\ reqs[r].pc = "decrement"
    /\ LET it == reqs[r].orderItems[reqs[r].i]
       IN stock' = Decrement(stock, it.productId, it.quantity)
    /\ reqs' = [reqs EXCEPT ![r].i = @ + 1,
                            ![r].pc = IF reqs[r].i < Len(reqs[r].orderItems)
                                      THEN "insertItem" ELSE "deleteCart"]
    /\ UNCHANGED <<active, price, carts, orders, orderItems, resp>>

\* kv.delete of the cart record
DeleteCart(r) ==
    /\ UNCHANGED <<cartReqs, authVars, webVars>>
    /\ reqs[r].pc = "deleteCart"
    /\ carts' = [carts EXCEPT ![reqs[r].session] = NoCart]
    /\ reqs' = [reqs EXCEPT ![r].pc = "fetch"]
    /\ UNCHANGED <<stock, active, price, orders, orderItems, resp>>

\* SELECT of the created order; the 201 response
FetchOrder(r) ==
    /\ UNCHANGED <<cartReqs, authVars, webVars>>
    /\ reqs[r].pc = "fetch"
    /\ Finish(r, "OK")
    /\ UNCHANGED <<stock, active, price, carts, orders, orderItems>>

\* Fail deleting the cart record before the error is answered
FailClearsCart(r) ==
    /\ UNCHANGED <<cartReqs, authVars, webVars>>
    /\ reqs[r].pc \in {"insertItem", "decrement", "deleteCart"}
    /\ reqs' = [reqs EXCEPT ![r].pc = "failed", ![r].code = "INTERNAL_ERROR"]
    /\ resp' = Resp("checkout", "INTERNAL_ERROR")
    /\ carts' = [carts EXCEPT ![reqs[r].session] = NoCart]
    /\ UNCHANGED <<stock, active, price, orders, orderItems>>

\* The awaited storage call the request is about to make rejects: the handler
\* has no try/catch, so the error reaches the error handler, which answers
\* INTERNAL_ERROR; the request stops where it is and keeps what it wrote.
Fail(r) ==
    /\ UNCHANGED <<cartReqs, authVars, webVars>>
    /\ reqs[r].pc \in {"insertItem", "decrement", "deleteCart"}
    /\ reqs' = [reqs EXCEPT ![r].pc = "failed", ![r].code = "INTERNAL_ERROR"]
    /\ resp' = Resp("checkout", "INTERNAL_ERROR")
    /\ UNCHANGED <<stock, active, price, carts, orders, orderItems>>

\* ------------------------------------------------------------ auth routes
\* the errors of middleware/error-handler the auth code throws
InvalidCredentials(op) ==
    AuthOut(op, "INVALID_CREDENTIALS", 401, "Invalid username or password", 0, NoToken)
AccountLocked(op) == AuthOut(op, "ACCOUNT_LOCKED", 403, "Account is locked", 0, NoToken)
Unauthorized(op, message) == AuthOut(op, "UNAUTHORIZED", 401, message, 0, NoToken)
NotFound(op, message) == AuthOut(op, "NOT_FOUND", 404, message, 0, NoToken)

\* the password test of the login handler: hash verification for a credential
\* in hash format, the table of test passwords for a legacy one
PasswordValid(name, password, hash) ==
    IF isNewHashFormat(hash) THEN verifyPassword(password, hash)
    ELSE testPasswords[name] = password

\* LoginCode testing the password before the locked role
LoginCodePasswordFirst(name, password) ==
    IF UserByName(name) = 0 THEN "INVALID_CREDENTIALS"
    ELSE IF ~PasswordValid(name, password, users[UserByName(name)]) THEN "INVALID_CREDENTIALS"
    ELSE IF UserType[UserByName(name)] = "locked" THEN "ACCOUNT_LOCKED"
    ELSE "OK"

\* LoginCode answering a missing user like a locked one
LoginCodeUnknownLocked(name, password) ==
    IF UserByName(name) = 0 THEN "ACCOUNT_LOCKED"
    ELSE IF UserType[UserByName(name)] = "locked" THEN "ACCOUNT_LOCKED"
    ELSE IF ~PasswordValid(name, password, users[UserByName(name)]) THEN "INVALID_CREDENTIALS"
    ELSE "OK"

\* the outcome of POST /api/auth/login before any write
LoginCode(name, password) ==
    IF UserByName(name) = 0 THEN "INVALID_CREDENTIALS"
    ELSE IF UserType[UserByName(name)] = "locked" THEN "ACCOUNT_LOCKED"
    ELSE IF ~PasswordValid(name, password, users[UserByName(name)]) THEN "INVALID_CREDENTIALS"
    ELSE "OK"

\* POST /api/auth/login, run to completion; salt is the random salt hashPassword
\* draws when it migrates a legacy credential
Login(name, password, salt) ==
    /\ UNCHANGED <<storeVars, cartReqs, webVars, now, logins, revoked>>
    /\ LET u == UserByName(name)
           code == LoginCode(name, password)
       IN IF code = "INVALID_CREDENTIALS"
          THEN /\ authResp' = InvalidCredentials("login")
               /\ UNCHANGED <<users, sessions, tokens>>
          ELSE IF code = "ACCOUNT_LOCKED"
          THEN /\ authResp' = AccountLocked("login")
               /\ UNCHANGED <<users, sessions, tokens>>
          ELSE LET access == generateAccessToken(u, now)
                   refresh == generateRefreshToken(u, now)
               IN /\ users' = IF isNewHashFormat(users[u]) THEN users
                              ELSE [users EXCEPT ![u] = hashPassword(password, salt)]
                  /\ sessions' = sessions \cup {SessionRow(u, refresh, now)}
                  /\ tokens' = tokens \cup {access, refresh}
                  /\ authResp' = [AuthOut("login", "OK", 200, "", u, access)
                                     EXCEPT !.cookie = refresh]

\* POST /api/auth/login step by step, one awaited call per step.  Request r
\* runs up to the SELECT of the user row and keeps the row it read.
LoginSelect(r, name, password) ==
    /\ logins[r].pc = "idle"
    /\ UNCHANGED <<storeVars, cartReqs, webVars, users, sessions, now, tokens, revoked>>
    /\ LET u == UserByName(name)
       IN IF u = 0
          THEN authResp' = InvalidCredentials("login") /\ UNCHANGED logins
          ELSE IF UserType[u] = "locked"
          THEN authResp' = AccountLocked("login") /\ UNCHANGED logins
          ELSE /\ logins' = [logins EXCEPT ![r] =
                     [pc |-> "verify", username |-> name, password |-> password,
                      user |-> u, hash |-> users[u]]]
               /\ UNCHANGED authResp

\* the password test on the row read before: verifyPassword for a hash, the
\* table and hashPassword (with a fresh random salt) for a legacy credential
LoginVerify(r, salt) ==
    /\ logins[r].pc = "verify"
    /\ UNCHANGED <<storeVars, cartReqs, webVars, users, sessions, now, tokens, revoked>>
    /\ LET l == logins[r]
       IN IF ~PasswordValid(l.username, l.password, l.hash)
          THEN authResp' = InvalidCredentials("login")
               /\ logins' = [logins EXCEPT ![r] = LoginIdle]
          ELSE /\ logins' = [logins EXCEPT ![r] =
                     IF isNewHashFormat(l.hash)
                     THEN [l EXCEPT !.pc = "session"]
                     ELSE [l EXCEPT !.pc = "update",
                                    !.hash = hashPassword(l.password, salt)]]
               /\ UNCHANGED authResp

\* UPDATE users SET password_hash = newHash WHERE id = the row's id
LoginMigrate(r) ==
    /\ logins[r].pc = "update"
    /\ users' = [users EXCEPT ![logins[r].user] = logins[r].hash]
    /\ logins' = [logins EXCEPT ![r].pc = "session"]
    /\ UNCHANGED <<storeVars, cartReqs, webVars, sessions, now, tokens, authResp, revoked>>

\* the tokens, INSERT INTO sessions, the cookie and the response
LoginSession(r) ==
    /\ logins[r].pc = "session"
    /\ LET u == logins[r].user
           access == generateAccessToken(u, now)
           refresh == generateRefreshToken(u, now)
       IN /\ sessions' = sessions \cup {SessionRow(u, refresh, now)}
          /\ tokens' = tokens \cup {access, refresh}
          /\ authResp' = [AuthOut("login", "OK", 200, "", u, access)
                             EXCEPT !.cookie = refresh]
    /\ logins' = [logins EXCEPT ![r] = LoginIdle]
    /\ UNCHANGED <<storeVars, cartReqs, webVars, users, now, revoked>>

\* jose.jwtVerify: the signature and the exp claim (15 minutes for an access
\* token, 7 days for a refresh token)
Lifetime(token) == IF token.type = "access" THEN AccessTtl ELSE RefreshTtl
jwtVerify(token) == token.type # "forged" /\ token.iat + Lifetime(token) > now

\* verifyRefreshToken: the user id of the token, 0 when it throws
verifyRefreshToken(token) ==
    IF jwtVerify(token) /\ token.type = "refresh" THEN token.sub ELSE 0

\* the rows the refresh handler's SELECT can return: hash and expiry
LiveSessions(token) ==
    {row \in sessions :
        row.refresh_token_hash = hashToken(token) /\ row.expires_at > now}

\* refresh accepting the token without looking for its session row
RefreshAcceptsNoRow(cookie) ==
    cookie # NoToken /\ verifyRefreshToken(cookie) # 0

\* POST /api/auth/refresh succeeds
RefreshAccepts(cookie) ==
    /\ cookie # NoToken
    /\ verifyRefreshToken(cookie) # 0
    /\ \E row \in LiveSessions(cookie) : row.user_id = verifyRefreshToken(cookie)

\* POST /api/auth/refresh
Refresh(cookie) ==
    /\ IF cookie = NoToken
       THEN authResp' = Unauthorized("refresh", "No refresh token provided")
            /\ UNCHANGED tokens
       ELSE IF ~RefreshAccepts(cookie)
       THEN authResp' = Unauthorized("refresh", "Invalid or expired refresh token")
            /\ UNCHANGED tokens
       ELSE LET access == generateAccessToken(cookie.sub, now)
            IN /\ tokens' = tokens \cup {access}
               /\ authResp' = AuthOut("refresh", "OK", 200, "", cookie.sub, access)
    /\ UNCHANGED <<storeVars, cartReqs, webVars, users, sessions, now, logins, revoked>>

\* POST /api/auth/logout: DELETE the rows with the token's hash
Logout(cookie) ==
    /\ sessions' = IF cookie = NoToken THEN sessions
                   ELSE {row \in sessions : row.refresh_token_hash # hashToken(cookie)}
    /\ revoked' = IF cookie.type = "refresh" THEN revoked \cup {cookie} ELSE revoked
    /\ authResp' = AuthOut("logout", "OK", 200, "Logged out successfully", 0, NoToken)
    /\ UNCHANGED <<storeVars, cartReqs, webVars, users, tokens, now, logins>>

\* time passes
Tick ==
    /\ now < MaxTime
    /\ now' = now + 1
    /\ UNCHANGED <<storeVars, cartReqs, webVars, users, sessions, tokens, authResp, logins, revoked>>


\* ------------------------------------------------- authentication middleware
\* the Authorization header of a request
NoHeader == [kind |-> "none", username |-> UnknownUser, password |-> "", token |-> NoToken]
Basic(name, password) ==
    [kind |-> "Basic", username |-> name, password |-> password, token |-> NoToken]
Bearer(token) ==
    [kind |-> "Bearer", username |-> UnknownUser, password |-> "", token |-> token]

Caller(u, userType) ==
    [ok |-> TRUE, id |-> u, userType |-> userType, message |-> "", code |-> "OK"]
Rejected(message) ==
    [ok |-> FALSE, id |-> 0, userType |-> "none", message |-> message,
     code |-> "UNAUTHORIZED"]
\* errors.forbidden thrown by a verifier
ForbiddenCaller(message) == [Rejected(message) EXCEPT !.code = "FORBIDDEN"]

\* verifyBasicAuth with requireAdmin = false
verifyBasicAuth(name, password) ==
    IF UserByName(name) = 0 THEN Rejected("Invalid credentials")
    ELSE IF ~PasswordValid(name, password, users[UserByName(name)])
    THEN Rejected("Invalid credentials")
    ELSE Caller(UserByName(name), UserType[UserByName(name)])

\* verifyBearerToken with requireAdmin = false: any token jwtVerify accepts;
\* the user is read from the claims (a refresh token carries no userType)
verifyBearerToken(token) ==
    IF ~jwtVerify(token)
    THEN Rejected(IF token.type # "forged" THEN "Token expired" ELSE "Invalid token")
    ELSE Caller(token.sub, IF token.type = "access" THEN UserType[token.sub] ELSE "undefined")

authMiddleware(header) ==
    IF header.kind = "none" THEN Rejected("Missing authentication")
    ELSE IF header.kind = "Basic" THEN verifyBasicAuth(header.username, header.password)
    ELSE verifyBearerToken(header.token)

\* verifyBasicAuth with requireAdmin = true: the role is tested on the row
\* read by username, before the password
verifyBasicAuthAdmin(name, password) ==
    IF UserByName(name) = 0 THEN Rejected("Invalid credentials")
    ELSE IF UserType[UserByName(name)] # "admin" THEN ForbiddenCaller("Admin access required")
    ELSE IF ~PasswordValid(name, password, users[UserByName(name)])
    THEN Rejected("Invalid credentials")
    ELSE Caller(UserByName(name), UserType[UserByName(name)])

\* verifyBearerToken with requireAdmin = true: errors.forbidden is thrown
\* inside the try block, whose catch rethrows everything that is not
\* JWTExpired as unauthorized('Invalid token')
verifyBearerTokenAdmin(token) ==
    IF ~jwtVerify(token)
    THEN Rejected(IF token.type # "forged" THEN "Token expired" ELSE "Invalid token")
    ELSE IF ~(token.type = "access" /\ UserType[token.sub] = "admin")
    THEN Rejected("Invalid token")
    ELSE Caller(token.sub, UserType[token.sub])

adminMiddleware(header) ==
    IF header.kind = "none" THEN Rejected("Missing authentication")
    ELSE IF header.kind = "Basic" THEN verifyBasicAuthAdmin(header.username, header.password)
    ELSE verifyBearerTokenAdmin(header.token)

\* --------------------------------------------------- order routes, with auth
\* the ids of the orders a SELECT with the given owner test returns
OrderIdsOf(u) == {oid \in 1..Len(orders) : orders[oid].userId = u}

\* the order GET /api/orders/:id selects: by id for an admin, by id and owner
\* for anyone else; 0 stands for no row
SelectOrderAnyOwner(caller, oid) == IF oid \in 1..Len(orders) THEN oid ELSE 0

SelectOrder(caller, oid) ==
    IF oid \notin 1..Len(orders) THEN 0
    ELSE IF caller.userType = "admin" THEN oid
    ELSE IF orders[oid].userId = caller.id THEN oid
    ELSE 0

\* GET /api/orders
ListOrders(header) ==
    /\ LET caller == authMiddleware(header)
       IN authResp' =
            IF ~caller.ok THEN Unauthorized("orders", caller.message)
            ELSE [AuthOut("orders", "OK", 200, "", caller.id, NoToken)
                     EXCEPT !.data = OrderIdsOf(caller.id)]
    /\ UNCHANGED <<storeVars, cartReqs, webVars, users, sessions, now, tokens, logins, revoked>>

\* GET /api/orders/:id
GetOrder(header, oid) ==
    /\ LET caller == authMiddleware(header)
       IN authResp' =
            IF ~caller.ok THEN Unauthorized("order", caller.message)
            ELSE IF SelectOrder(caller, oid) = 0 THEN NotFound("order", "Order not found")
            ELSE [AuthOut("order", "OK", 200, "", caller.id, NoToken)
                     EXCEPT !.data = {oid}]
    /\ UNCHANGED <<storeVars, cartReqs, webVars, users, sessions, now, tokens, logins, revoked>>

\* POST /api/orders behind the middleware
PostOrder(header, s, card) ==
    IF authMiddleware(header).ok
    THEN CreateOrder(authMiddleware(header).id, s, card)
    ELSE /\ resp' = Resp("checkout", "UNAUTHORIZED")
         /\ UNCHANGED <<stock, active, price, carts, orders, orderItems, reqs,
                        cartReqs, authVars, webVars>>

\* ------------------------------------------------------------------- admin
\* PATCH /api/admin/products/:id/stock (updateStockSchema: integer >= 0)
UpdateStock(p, n) ==
    /\ UNCHANGED <<cartReqs, authVars, clientVars, puts, served>>
    /\ cache' = purgeCache(cache, {ListUrl, Url("slug", p)})
    /\ stock' = [stock EXCEPT ![p] = n]
    /\ resp' = Resp("stock", "OK")
    /\ UNCHANGED <<active, price, carts, orders, orderItems, reqs>>

\* UpdateProduct writing the new price into the order items of the product too
UpdateProductReprice(p, pr, st, ac) ==
    /\ UNCHANGED <<cartReqs, authVars, clientVars, puts, served>>
    /\ cache' = purgeCache(cache, {ListUrl, Url("slug", p)})
    /\ UNCHANGED <<carts, orders, reqs, stock, active>>
    /\ price' = IF pr = Undef THEN price ELSE [price EXCEPT ![p] = pr]
    /\ orderItems' = [i \in 1..Len(orderItems) |->
          IF pr # Undef /\ orderItems[i].productId = p
          THEN [orderItems[i] EXCEPT !.unitPrice = pr] ELSE orderItems[i]]
    /\ resp' = Resp("product", "OK")

\* PATCH /api/products/:id (updateProductSchema): the fields given are written
UpdateProduct(p, pr, st, ac) ==
    /\ UNCHANGED <<cartReqs, authVars, clientVars, puts, served>>
    /\ UNCHANGED <<carts, orders, orderItems, reqs>>
    /\ IF pr = Undef /\ st = Undef /\ ac = Undef
       THEN /\ resp' = Resp("product", "VALIDATION_ERROR")
            /\ UNCHANGED <<stock, active, price, cache>>
       ELSE /\ price' = IF pr = Undef THEN price ELSE [price EXCEPT ![p] = pr]
            /\ stock' = IF st = Undef THEN stock ELSE [stock EXCEPT ![p] = st]
            /\ active' = IF ac = Undef THEN active ELSE [active EXCEPT ![p] = (ac = 1)]
            /\ cache' = purgeCache(cache, {ListUrl, Url("slug", p)})
            /\ resp' = Resp("product", "OK")

\* DELETE /api/products/:id: soft delete
DeleteProduct(p) ==
    /\ UNCHANGED <<cartReqs, authVars, clientVars, puts, served>>
    /\ cache' = purgeCache(cache, {ListUrl, Url("slug", p)})
    /\ active' = [active EXCEPT ![p] = FALSE]
    /\ resp' = Resp("delete", "OK")
    /\ UNCHANGED <<stock, price, carts, orders, orderItems, reqs>>

\* PATCH /api/admin/orders/:id/status (updateOrderStatusSchema)
OrderStatuses == {"pending", "processing", "shipped", "delivered", "cancelled"}

UpdateOrderStatus(oid, status) ==
    /\ UNCHANGED <<cartReqs, authVars, webVars>>
    /\ UNCHANGED <<stock, active, price, carts, orderItems, reqs>>
    /\ IF oid \notin 1..Len(orders)
       THEN resp' = Resp("status", "NOT_FOUND") /\ UNCHANGED orders
       ELSE /\ orders' = [orders EXCEPT ![oid].status = status]
            /\ resp' = Resp("status", "OK")

\* the response of a request adminMiddleware throws on; no handler runs
AdminDenied(op, header) ==
    /\ resp' = Resp(op, adminMiddleware(header).code)
    /\ UNCHANGED <<stock, active, price, carts, orders, orderItems, reqs,
                   cartReqs, authVars, webVars>>

\* the admin-only routes behind adminMiddleware
AdminUpdateStock(header, p, n) ==
    IF adminMiddleware(header).ok THEN UpdateStock(p, n) ELSE AdminDenied("stock", header)

AdminUpdateProduct(header, p, pr, st, ac) ==
    IF adminMiddleware(header).ok THEN UpdateProduct(p, pr, st, ac)
    ELSE AdminDenied("product", header)

AdminDeleteProduct(header, p) ==
    IF adminMiddleware(header).ok THEN DeleteProduct(p) ELSE AdminDenied("delete", header)

AdminUpdateOrderStatus(header, oid, status) ==
    IF adminMiddleware(header).ok THEN UpdateOrderStatus(oid, status)
    ELSE AdminDenied("status", header)

\* GET /api/admin/products, /orders, /orders/:id, /stats: SELECTs only
AdminRead(header) ==
    IF adminMiddleware(header).ok
    THEN /\ resp' = Resp("adminRead", "OK")
         /\ UNCHANGED <<stock, active, price, carts, orders, orderItems, reqs,
                        cartReqs, authVars, webVars>>
    ELSE AdminDenied("adminRead", header)

\* ------------------------------------------------------------ specification
\* the edits of PATCH /api/products/:id the model draws: <<price, stock, isActive>>
ProductEdits == {<<Undef, Undef, 1>>, <<Undef, Undef, 0>>, <<Undef, Undef, Undef>>}

Admin ==
    \/ \E p \in Products, n \in 0..MaxStock : UpdateStock(p, n)
    \/ \E p \in Products, e \in ProductEdits : UpdateProduct(p, e[1], e[2], e[3])
    \/ \E p \in Products : DeleteProduct(p)

CartOps(S) ==
    \/ \E s \in S : GetCart(s)
    \/ \E s \in S, p \in Products, q \in Quantities : AddItem(s, p, q)
    \/ \E s \in S, p \in Products, q \in 0..MaxQty : UpdateItem(s, p, q)
    \/ \E s \in S, p \in Products : RemoveItem(s, p)
    \/ \E s \in S : ClearCart(s)

\* every request runs to completion before the next one starts
Next ==
    \/ CartOps(SeqSessions)
    \/ \E u \in Users, s \in SeqSessions \cup {NoSession}, card \in Cards : CreateOrder(u, s, card)
    \/ Admin

Spec == Init /\ [][Next]_vars

\* the cart store alone, with requests that carry no session identifier
NextCart == CartOps(SeqSessions \cup {NoSession}) \/ Admin

SpecCart == Init /\ [][NextCart]_vars

\* Two checkout requests, one per signed-in user, against carts and stock that
\* earlier requests left; their steps interleave freely.
RECURSIVE LinesOver(_)
LinesOver(P) ==
    IF P = {} THEN {<<>>}
    ELSE {<<>>} \cup
         UNION {{<<Line(p, q)>> \o rest : rest \in LinesOver(P \ {p})} :
                    <<p, q>> \in P \X Quantities}

StoredCarts == {NoCart} \cup {StoredCart(items) : items \in LinesOver(Products)}

InitConc ==
    /\ stock \in [Products -> 1..MaxStock]
    /\ active = [p \in Products |-> TRUE]
    /\ price = CatalogPrice
    /\ carts \in [Sessions -> StoredCarts]
    /\ orders = <<>>
    /\ orderItems = <<>>
    /\ resp = Resp("none", "OK")
    /\ reqs = [r \in Slots |-> Idle]
    /\ CartReqsQuiet
    /\ WebQuiet
    /\ AuthQuiet

NextConc ==
    \/ \E r \in Slots, s \in Sessions \cup {NoSession}, card \in Cards :
           StartCheckout(r, r, s, card)
    \/ \E r \in Slots : ReadProducts(r)
    \/ \E r \in Slots : InsertOrder(r)
    \/ \E r \in Slots : InsertItem(r)
    \/ \E r \in Slots : DecrementStock(r)
    \/ \E r \in Slots : DeleteCart(r)
    \/ \E r \in Slots : FetchOrder(r)

SpecConc == InitConc /\ [][NextConc]_vars

\* Two cart requests of one session run step by step and interleave with each
\* other and with whole Clear requests, against a stock that earlier requests
\* left.
InitCartConc ==
    /\ stock \in [Products -> 1..MaxStock]
    /\ active = [p \in Products |-> TRUE]
    /\ price = CatalogPrice
    /\ carts = [s \in Sessions |-> NoCart]
    /\ orders = <<>>
    /\ orderItems = <<>>
    /\ resp = Resp("none", "OK")
    /\ reqs = [r \in Slots |-> Idle]
    /\ CartReqsQuiet
    /\ WebQuiet
    /\ AuthQuiet

NextCartConc ==
    \/ \E r \in Slots, s \in SeqSessions \cup {NoSession}, p \in Products, q \in Quantities :
           AddReadProduct(r, s, p, q)
    \/ \E r \in Slots : AddGetCart(r)
    \/ \E r \in Slots, s \in SeqSessions \cup {NoSession}, p \in Products, q \in 0..MaxQty :
           UpdateGetCart(r, s, p, q)
    \/ \E r \in Slots : UpdateReadStock(r)
    \/ \E r \in Slots, s \in SeqSessions \cup {NoSession}, p \in Products :
           RemoveGetCart(r, s, p)
    \/ \E r \in Slots : saveCart(r)
    \/ \E s \in SeqSessions : ClearCart(s)

SpecCartConc == InitCartConc /\ [][NextCartConc]_vars

\* The accounts' credentials are legacy or already in hash format.
InitAuth ==
    /\ stock = [p \in Products |-> MaxStock]
    /\ active = [p \in Products |-> TRUE]
    /\ price = CatalogPrice
    /\ carts = [s \in Sessions |-> IF s \in SeqSessions THEN StoredCart(<<Line(1, 1)>>) ELSE NoCart]
    /\ orders = <<>>
    /\ orderItems = <<>>
    /\ resp = Resp("none", "OK")
    /\ reqs = [r \in Slots |-> Idle]
    /\ CartReqsQuiet
    /\ WebQuiet
    /\ users \in [AccountIds -> {Legacy}]
           \cup {[u \in AccountIds |-> hashPassword(testPasswords[Username[u]], "salt1")]}
    /\ sessions = {}
    /\ now = 0
    /\ tokens = {}
    /\ authResp = NoAuthResp
    /\ logins = [r \in Slots |-> LoginIdle]
    /\ revoked = {}

Cookies == {NoToken, ForgedToken} \cup tokens
Headers ==
    {NoHeader} \cup {Basic(c[1], c[2]) : c \in Credentials}
        \cup {Bearer(tok) : tok \in tokens \cup {ForgedToken}}

\* The login route, one request at a time, as time passes.
NextAuth ==
    \/ \E c \in Credentials, salt \in Salts : Login(c[1], c[2], salt)
    \/ Tick

SpecAuth == InitAuth /\ [][NextAuth]_vars

\* Login, refresh and logout, one request at a time, as time passes, for
\* accounts whose credentials were migrated before.  A request presents a
\* token the server minted, a forged one, or none.
InitRefresh == InitAuth /\ \A u \in AccountIds : isNewHashFormat(users[u])

NextRefresh ==
    \/ \E c \in Credentials : Login(c[1], c[2], "salt2")
    \/ \E cookie \in Cookies : Refresh(cookie)
    \/ \E cookie \in Cookies : Logout(cookie)
    \/ Tick

SpecRefresh == InitRefresh /\ [][NextRefresh]_vars

\* The order routes behind the middleware, one request at a time, with the
\* logins that mint the access tokens.  A request presents credentials, a
\* token the server minted, a forged one, or no Authorization header.  The
\* accounts' credentials were migrated before.
NextOrders ==
    \/ \E c \in Credentials : Login(c[1], c[2], "salt2")
    \/ Tick
    \/ \E header \in Headers : ListOrders(header)
    \/ \E header \in Headers, oid \in 1..MaxOrders + 1 : GetOrder(header, oid)
    \/ \E header \in Headers : PostOrder(header, "s1", CardTestValid)

SpecOrders == InitRefresh /\ [][NextOrders]_vars

\* The admin-only routes behind adminMiddleware, one request at a time, after
\* standard_user and admin_user have logged in at time 0 with migrated
\* credentials; checkout creates the order whose status is updated.
\* The Authorization headers of the requests: none, the Basic credentials,
\* and as Bearer a forged token or one of the tokens minted at time 0.
AdminTokens ==
    UNION {{generateAccessToken(u, 0), generateRefreshToken(u, 0)} : u \in {1, 3}}
AdminHeaders ==
    {NoHeader} \cup {Basic(c[1], c[2]) : c \in Credentials}
        \cup {Bearer(tok) : tok \in AdminTokens \cup {ForgedToken}}

InitAdmin ==
    /\ stock = [p \in Products |-> MaxStock]
    /\ active = [p \in Products |-> TRUE]
    /\ price = CatalogPrice
    /\ carts = [s \in Sessions |-> IF s \in SeqSessions THEN StoredCart(<<Line(1, 1)>>) ELSE NoCart]
    /\ orders = <<>>
    /\ orderItems = <<>>
    /\ resp = Resp("none", "OK")
    /\ reqs = [r \in Slots |-> Idle]
    /\ CartReqsQuiet
    /\ WebQuiet
    /\ users = [u \in AccountIds |-> hashPassword(testPasswords[Username[u]], "salt1")]
    /\ sessions = {SessionRow(u, generateRefreshToken(u, 0), 0) : u \in {1, 3}}
    /\ now = 0
    /\ tokens = AdminTokens
    /\ authResp = [AuthOut("login", "OK", 200, "", 3, generateAccessToken(3, 0))
                      EXCEPT !.cookie = generateRefreshToken(3, 0)]
    /\ logins = [r \in Slots |-> LoginIdle]
    /\ revoked = {}

\* the statuses the model's requests set
StatusEdits == {"shipped", "cancelled"}

AdminRequest(header) ==
    \/ \E p \in Products, n \in 0..MaxStock : AdminUpdateStock(header, p, n)
    \/ \E p \in Products, e \in ProductEdits :
          AdminUpdateProduct(header, p, e[1], e[2], e[3])
    \/ \E p \in Products : AdminDeleteProduct(header, p)
    \/ \E oid \in 1..MaxOrders + 1, status \in StatusEdits :
          AdminUpdateOrderStatus(header, oid, status)
    \/ AdminRead(header)

NextAdmin ==
    \/ \E header \in AdminHeaders : AdminRequest(header)
    \/ \E header \in AdminHeaders : PostOrder(header, "s1", CardTestValid)
    \/ Tick

SpecAdmin == InitAdmin /\ [][NextAdmin]_vars

\* Checkouts of two sessions that hold the same product run step by step
\* while an administrator edits the product's price and stock, soft-deletes
\* it and updates order statuses in between.
InitHistory ==
    /\ stock = [p \in Products |-> MaxStock]
    /\ active = [p \in Products |-> TRUE]
    /\ price = CatalogPrice
    /\ carts = [s \in Sessions |-> StoredCart(<<Line(1, 1)>>)]
    /\ orders = <<>>
    /\ orderItems = <<>>
    /\ resp = Resp("none", "OK")
    /\ reqs = [r \in Slots |-> Idle]
    /\ CartReqsQuiet
    /\ WebQuiet
    /\ AuthQuiet

\* the edits of PATCH /api/products/:id drawn here: a new price, a soft delete
HistoryEdits == {<<CatalogPrice[1] + 3, Undef, Undef>>, <<Undef, Undef, 0>>}

NextHistory ==
    \/ \E r \in Slots, s \in Sessions : StartCheckout(r, r, s, CardTestValid)
    \/ \E r \in Slots : ReadProducts(r)
    \/ \E r \in Slots : InsertOrder(r)
    \/ \E r \in Slots : InsertItem(r)
    \/ \E r \in Slots : DecrementStock(r)
    \/ \E r \in Slots : DeleteCart(r)
    \/ \E r \in Slots : FetchOrder(r)
    \/ UpdateStock(1, MaxStock)
    \/ \E e \in HistoryEdits : UpdateProduct(1, e[1], e[2], e[3])
    \/ DeleteProduct(1)
    \/ \E oid \in 1..MaxOrders + 1 : UpdateOrderStatus(oid, "shipped")

SpecHistory == InitHistory /\ [][NextHistory]_vars

\* Two checkout requests for the two-line cart of one session run step by
\* step; a storage call after the order header can fail.
InitFail ==
    /\ stock = [p \in Products |-> MaxStock]
    /\ active = [p \in Products |-> TRUE]
    /\ price = CatalogPrice
    /\ carts = [s \in Sessions |->
          IF s \in SeqSessions THEN StoredCart(<<Line(1, 1), Line(2, 1)>>) ELSE NoCart]
    /\ orders = <<>>
    /\ orderItems = <<>>
    /\ resp = Resp("none", "OK")
    /\ reqs = [r \in Slots |-> Idle]
    /\ CartReqsQuiet
    /\ WebQuiet
    /\ AuthQuiet

NextFail ==
    \/ \E r \in Slots, u \in Users, s \in Sessions : StartCheckout(r, u, s, CardTestValid)
    \/ \E r \in Slots : ReadProducts(r)
    \/ \E r \in Slots : InsertOrder(r)
    \/ \E r \in Slots : InsertItem(r)
    \/ \E r \in Slots : DecrementStock(r)
    \/ \E r \in Slots : DeleteCart(r)
    \/ \E r \in Slots : FetchOrder(r)
    \/ \E r \in Slots : Fail(r)

SpecFail == InitFail /\ [][NextFail]_vars

\* The cart operations of two sessions and their checkouts, one request at a
\* time.
NextShop ==
    \/ CartOps(Sessions)
    \/ \E u \in Users, s \in Sessions : CreateOrder(u, s, CardTestValid)

SpecShop == Init /\ [][NextShop]_vars

\* A checkout request of a session runs step by step while Add and Update
\* requests of the same session run in between.
NextCheckoutCart ==
    \/ \E u \in Users, s \in SeqSessions : StartCheckout(1, u, s, CardTestValid)
    \/ \E r \in Slots : ReadProducts(r)
    \/ \E r \in Slots : InsertOrder(r)
    \/ \E r \in Slots : InsertItem(r)
    \/ \E r \in Slots : DecrementStock(r)
    \/ \E r \in Slots : DeleteCart(r)
    \/ \E r \in Slots : FetchOrder(r)
    \/ \E s \in SeqSessions, p \in Products, q \in Quantities : AddItem(s, p, q)
    \/ \E s \in SeqSessions, p \in Products, q \in Quantities : UpdateItem(s, p, q)

SpecCheckoutCart == InitFail /\ [][NextCheckoutCart]_vars

\* The cart operations of one session, one request at a time, on products
\* whose stock is above the largest quantity a request may carry.
InitLargeStock ==
    /\ stock = [p \in Products |-> MaxQty + 1]
    /\ active = [p \in Products |-> TRUE]
    /\ price = CatalogPrice
    /\ carts = [s \in Sessions |-> NoCart]
    /\ orders = <<>>
    /\ orderItems = <<>>
    /\ resp = Resp("none", "OK")
    /\ reqs = [r \in Slots |-> Idle]
    /\ CartReqsQuiet
    /\ WebQuiet
    /\ AuthQuiet

NextLargeStock == CartOps(SeqSessions \cup {NoSession})

SpecLargeStock == InitLargeStock /\ [][NextLargeStock]_vars

\* ------------------------------------------------------- client cart store
\* stores/cartStore.ts: the cart store of the browser that holds session s1.
\* An operation runs synchronously up to its await (capture, optimistic set,
\* request sent); the server handles the request; the continuation (nothing
\* on success, the catch block on an error) runs when the answer arrives.
ClientSession == "s1"
MaxLines == 2

\* state.items.map(item => item.productId === p ? {...item, quantity} : item)
SetQuantity(items, p, q) ==
    [i \in 1..Len(items) |->
        IF items[i].productId = p THEN [items[i] EXCEPT !.quantity = q]
        ELSE items[i]]

\* state.items.filter(item => item.productId !== p)
FilterOut(items, p) == SelectSeq(items, LAMBDA l : l.productId # p)

\* state.items.find(item => item.productId === p), as a list of 0 or 1 lines
FindItem(items, p) ==
    IF findIndex(items, p) = 0 THEN <<>> ELSE <<items[findIndex(items, p)]>>

\* the optimistic set of addItem
AddOptimistic(items, p, q) ==
    IF findIndex(items, p) # 0
    THEN [i \in 1..Len(items) |->
            IF items[i].productId = p
            THEN [items[i] EXCEPT !.quantity = @ + q] ELSE items[i]]
    ELSE Append(items, Line(p, q))

Call(op, p, q) == [NoCall EXCEPT !.pc = "sent", !.op = op, !.productId = p, !.quantity = q]

\* the bounds of the model on the store's list and on its quantities
ClientRoom(p, q) ==
    /\ Len(cartStore) < MaxLines
    /\ \A i \in 1..Len(cartStore) : cartStore[i].quantity + q <= MaxStock + 1

ClientFrame == UNCHANGED <<storeVars, cartReqs, authVars, edgeVars>>

\* addItem(product, quantity) up to `await api.addToCart`
ClientAddItem(r, p, q) ==
    /\ calls[r].pc = "idle"
    /\ ClientRoom(p, q)
    /\ cartStore' = AddOptimistic(cartStore, p, q)
    /\ calls' = [calls EXCEPT ![r] =
          [Call("add", p, q) EXCEPT !.previousQuantity = LineQty(cartStore, p)]]
    /\ ClientFrame

\* removeItem(productId) up to `await api.removeFromCart`
ClientRemoveItem(r, p) ==
    /\ calls[r].pc = "idle"
    /\ Len(cartStore) <= MaxLines
    /\ findIndex(cartStore, p) # 0
    /\ cartStore' = FilterOut(cartStore, p)
    /\ calls' = [calls EXCEPT ![r] =
          [Call("remove", p, 0) EXCEPT !.removedItem = FindItem(cartStore, p)]]
    /\ ClientFrame

\* updateQuantity(productId, quantity), quantity > 0, up to
\* `await api.updateCartItem`
ClientUpdateQuantity(r, p, q) ==
    /\ calls[r].pc = "idle"
    /\ Len(cartStore) <= MaxLines
    /\ findIndex(cartStore, p) # 0
    /\ cartStore' = SetQuantity(cartStore, p, q)
    /\ calls' = [calls EXCEPT ![r] =
          [Call("update", p, q) EXCEPT !.previousQuantity = LineQty(cartStore, p)]]
    /\ ClientFrame

\* clearCart() up to `await api.clearCart`
ClientClearCart(r) ==
    /\ calls[r].pc = "idle"
    /\ Len(cartStore) <= MaxLines
    /\ cartStore # <<>>
    /\ cartStore' = <<>>
    /\ calls' = [calls EXCEPT ![r] =
          [Call("clear", 0, 0) EXCEPT !.previousItems = cartStore]]
    /\ ClientFrame

\* the answer of the cart route to a call of the store
ApiCode(c) ==
    IF c.op = "add" THEN AddCode(ClientSession, c.productId, c.quantity)
    ELSE IF c.op = "clear" THEN "OK"
    ELSE IF findIndex(getCart(ClientSession), c.productId) = 0 THEN "NOT_FOUND"
    ELSE IF c.op = "update" /\ c.quantity > stock[c.productId] THEN "OUT_OF_STOCK"
    ELSE "OK"

\* the cart the route stores when it answers OK
ApiCart(c) ==
    LET items == getCart(ClientSession)
        i == findIndex(items, c.productId)
    IN IF c.op = "add" THEN StoredCart(AddLines(items, c.productId, c.quantity))
       ELSE IF c.op = "update" THEN StoredCart([items EXCEPT ![i].quantity = c.quantity])
       ELSE IF c.op = "remove" THEN StoredCart(splice(items, i))
       ELSE NoCart

\* the worker handles the request of call r
ApiServe(r) ==
    /\ calls[r].pc = "sent"
    /\ resp' = Resp(calls[r].op, ApiCode(calls[r]))
    /\ carts' = IF ApiCode(calls[r]) = "OK"
                THEN [carts EXCEPT ![ClientSession] = ApiCart(calls[r])]
                ELSE carts
    /\ calls' = [calls EXCEPT ![r].pc = "answered", ![r].ok = (ApiCode(calls[r]) = "OK")]
    /\ UNCHANGED <<stock, active, price, orders, orderItems, reqs>>
    /\ UNCHANGED <<cartReqs, authVars, edgeVars, cartStore>>

\* the request of call r fails before it reaches the worker (fetch rejects)
ApiLost(r) ==
    /\ calls[r].pc = "sent"
    /\ calls' = [calls EXCEPT ![r].pc = "answered", ![r].ok = FALSE]
    /\ UNCHANGED cartStore
    /\ ClientFrame

\* the catch block of the operation of call c, applied to the current items
Revert(c, items) ==
    IF c.op = "add"
    THEN (IF c.previousQuantity = 0 THEN FilterOut(items, c.productId)
          ELSE SetQuantity(items, c.productId, c.previousQuantity))
    ELSE IF c.op = "remove" THEN items \o c.removedItem
    ELSE IF c.op = "update" THEN SetQuantity(items, c.productId, c.previousQuantity)
    ELSE items \o c.previousItems

\* the await of call r returns: nothing more on success, the revert on an error
ClientSettle(r) ==
    /\ calls[r].pc = "answered"
    /\ cartStore' = IF calls[r].ok THEN cartStore ELSE Revert(calls[r], cartStore)
    /\ calls' = [calls EXCEPT ![r] = NoCall]
    /\ ClientFrame

InitClient ==
    /\ stock = [p \in Products |-> MaxStock]
    /\ active = [p \in Products |-> TRUE]
    /\ price = CatalogPrice
    /\ carts = [s \in Sessions |-> NoCart]
    /\ orders = <<>>
    /\ orderItems = <<>>
    /\ resp = Resp("none", "OK")
    /\ reqs = [r \in Slots |-> Idle]
    /\ CartReqsQuiet
    /\ WebQuiet
    /\ AuthQuiet

\* the products the browser has on its page
ClientProducts == {1}

NextClient ==
    \/ \E r \in Slots, p \in ClientProducts : ClientAddItem(r, p, 1)
    \/ \E r \in Slots, p \in ClientProducts : ClientRemoveItem(r, p)
    \/ \E r \in Slots, p \in ClientProducts, q \in Quantities : ClientUpdateQuantity(r, p, q)
    \/ \E r \in Slots : ClientClearCart(r)
    \/ \E r \in Slots : ApiServe(r)
    \/ \E r \in Slots : ApiLost(r)
    \/ \E r \in Slots : ClientSettle(r)

SpecClient == InitClient /\ [][NextClient]_vars

\* ------------------------------------------------------------- edge cache
\* worker/index.ts fetch: a GET under /api is answered from caches.default when
\* the URL has an entry; otherwise the route handler runs and a 2xx response
\* whose Cache-Control holds s-maxage is stored by ctx.waitUntil(cfCache.put),
\* which runs after the response is returned.
MaxPuts == 1

\* productRowToProduct(row): the columns the model keeps
ProductView(p) ==
    [id |-> p, price |-> price[p], stock |-> stock[p], isActive |-> active[p]]

\* SELECT * FROM products WHERE is_active = 1 ORDER BY name, from product p on
RECURSIVE ActiveFrom(_)
ActiveFrom(p) ==
    IF p \notin Products THEN <<>>
    ELSE (IF active[p] THEN <<ProductView(p)>> ELSE <<>>) \o ActiveFrom(p + 1)

HandlerResponse(status, sMaxAge, data) ==
    [status |-> status, sMaxAge |-> sMaxAge, data |-> data]

\* app.fetch(request): the response of the route of URL u.  The product routes
\* set `public, s-maxage=86400`; the by-slug route reads active products only
\* and answers 404 with the cache headers of notFoundCached; the by-id route
\* reads any product; the routes behind noCacheMiddleware answer `no-store`.
Handler(u) ==
    IF u.route = "list" THEN HandlerResponse(200, TRUE, ActiveFrom(1))
    ELSE IF u.route = "slug"
    THEN (IF active[u.id] THEN HandlerResponse(200, TRUE, <<ProductView(u.id)>>)
          ELSE HandlerResponse(404, TRUE, <<>>))
    ELSE IF u.route = "id" THEN HandlerResponse(200, TRUE, <<ProductView(u.id)>>)
    ELSE HandlerResponse(200, FALSE, <<>>)

\* response.ok && cacheControl && cacheControl.includes('s-maxage')
Storable(h) == h.status = 200 /\ h.sMaxAge

Served(u, xCache, status, data) ==
    [url |-> u, xCache |-> xCache, status |-> status, data |-> data]

EdgeFrame == UNCHANGED <<storeVars, cartReqs, authVars, clientVars>>

\* GET u through the worker's fetch
EdgeGet(u) ==
    /\ Cardinality(puts) < MaxPuts
    /\ EdgeFrame
    /\ UNCHANGED cache
    /\ IF cache[u].hit
       THEN /\ served' = Served(u, "HIT", 200, cache[u].data)
            /\ UNCHANGED puts
       ELSE IF Storable(Handler(u))
       THEN /\ served' = Served(u, "MISS", Handler(u).status, Handler(u).data)
            /\ puts' = puts \cup {[url |-> u, data |-> Handler(u).data]}
       ELSE /\ served' = Served(u, "none", Handler(u).status, Handler(u).data)
            /\ UNCHANGED puts

\* a pending cfCache.put(cacheKey, responseToCache) of URL u runs
EdgePut(u) ==
    /\ \E e \in puts :
          /\ e.url = u
          /\ cache' = [cache EXCEPT ![u] = Entry(e.data)]
          /\ puts' = puts \ {e}
    /\ UNCHANGED served
    /\ EdgeFrame

InitCache ==
    /\ stock = [p \in Products |-> MaxStock]
    /\ active = [p \in Products |-> TRUE]
    /\ price = CatalogPrice
    /\ carts = [s \in Sessions |-> NoCart]
    /\ orders = <<>>
    /\ orderItems = <<>>
    /\ resp = Resp("none", "OK")
    /\ reqs = [r \in Slots |-> Idle]
    /\ CartReqsQuiet
    /\ WebQuiet
    /\ AuthQuiet

\* the URLs requested: the list, product 1 by slug and by id, the other routes
CacheUrls == {ListUrl, Url("slug", 1), Url("id", 1)} \cup PrivateUrls
\* the edits of product 1: a new price
CacheEdits == {<<CatalogPrice[1] + 3, Undef, Undef>>}

NextCache ==
    \/ \E u \in CacheUrls : EdgeGet(u)
    \/ \E u \in CacheUrls : EdgePut(u)
    \/ UpdateStock(1, 0)
    \/ \E e \in CacheEdits : UpdateProduct(1, e[1], e[2], e[3])
    \/ DeleteProduct(1)

SpecCache == InitCache /\ [][NextCache]_vars

\* Two login requests run step by step and interleave.
NextLoginConc ==
    \/ \E r \in Slots, c \in Credentials : LoginSelect(r, c[1], c[2])
    \/ \E r \in Slots, salt \in Salts : LoginVerify(r, salt)
    \/ \E r \in Slots : LoginMigrate(r)
    \/ \E r \in Slots : LoginSession(r)

SpecLoginConc == InitAuth /\ [][NextLoginConc]_vars

\* ---------------------------------------------------------------- properties
\* what the formulas below measure the handlers against
HasLine(items, p) == \E i \in 1..Len(items) : items[i].productId = p

Without(items, p) == SelectSeq(items, LAMBDA l : l.productId # p)

RECURSIVE SumLines(_, _)
SumLines(items, pr) ==
    IF items = <<>> THEN 0
    ELSE pr[Head(items).productId] * Head(items).quantity + SumLines(Tail(items), pr)

RECURSIVE SumItems(_)
SumItems(rows) ==
    IF rows = <<>> THEN 0
    ELSE Head(rows).quantity * Head(rows).unitPrice + SumItems(Tail(rows))

ItemsOf(oid) == SelectSeq(orderItems, LAMBDA row : row.orderId = oid)

Ordered(items, p) ==
    IF HasLine(items, p) THEN (CHOOSE i \in 1..Len(items) : items[i].productId = p) ELSE 0

OrderedQty(items, p) == IF HasLine(items, p) THEN items[Ordered(items, p)].quantity ELSE 0

Inactive(l) == ~active[l.productId]
Short(l) == stock[l.productId] < l.quantity

\* a checkout that reaches the cart load with a stored, non-empty cart
ReachesValidation(s, card) ==
    /\ isValidCardNumber(card)
    /\ s \in Sessions
    /\ carts[s].present
    /\ Len(carts[s].items) > 0

\* C1: with requests running one at a time (cart operations, checkouts, admin
\* stock updates and product edits), no product's stock is ever negative.
C1_StockNonNegative == \A p \in Products : stock[p] >= 0

\* a checkout has just sold the last units of a product
C1_Witness ==
    /\ resp = Resp("checkout", "OK")
    /\ \E i \in 1..Len(orderItems) : stock[orderItems[i].productId] = 0

\* C2: a product's stock is negative only after two checkouts raced, that is
\* one passed its stock check while the other had passed its own and had not
\* yet written its last decrement; checkouts that do not overlap in this way
\* never oversell.  That the race does oversell is C2_Witness.
C2_OversellOnlyWhenRaced ==
    (\A r \in Slots : ~reqs[r].raced) => \A p \in Products : stock[p] >= 0

\* both checkouts passed the check, both created their order and decremented,
\* and a product both carts held is left with negative stock
C2_Witness ==
    /\ \A r \in Slots : reqs[r].pc = "done" /\ reqs[r].code = "OK"
    /\ reqs[1].session # reqs[2].session
    /\ Len(orders) = 2
    /\ \E p \in Products :
          /\ stock[p] < 0
          /\ \A oid \in 1..2 : \E i \in 1..Len(orderItems) :
                 orderItems[i].orderId = oid /\ orderItems[i].productId = p

\* C3: a checkout by user u with a card that passes the checksum and a stored
\* non-empty cart whose lines all reference active products within stock
\* succeeds, appends one order (status pending, owner u, total = sum of catalog
\* price x quantity), appends one order item per cart line in cart order with
\* the catalog price, lowers each product's stock by exactly the quantity of
\* its line, and leaves the session without a cart, so a read returns no items.
C3_CheckoutPlacesOrder ==
    [][\A u \in Users, s \in Sessions, card \in Cards :
        (/\ resp'.op = "checkout"
         /\ CreateOrder(u, s, card)
         /\ ReachesValidation(s, card)
         /\ \A i \in 1..Len(carts[s].items) :
                ~Inactive(carts[s].items[i]) /\ ~Short(carts[s].items[i]))
        => LET items == carts[s].items
               oid == Len(orders) + 1
           IN /\ resp' = Resp("checkout", "OK")
              /\ orders' = Append(orders,
                     [userId |-> u, totalAmount |-> SumLines(items, price),
                      status |-> "pending"])
              /\ orderItems' = orderItems \o
                     [i \in 1..Len(items) |->
                         [orderId |-> oid, productId |-> items[i].productId,
                          quantity |-> items[i].quantity,
                          unitPrice |-> price[items[i].productId]]]
              /\ \A p \in Products : stock'[p] = stock[p] - OrderedQty(items, p)
              /\ carts' = [carts EXCEPT ![s] = NoCart]
              /\ CartView(s)' = <<>>
    ]_vars

\* an order of two lines has just been placed
C3_Witness ==
    /\ resp = Resp("checkout", "OK")
    /\ Len(orders) = 1
    /\ Len(orderItems) = 2
    /\ ~carts["s1"].present

\* C4: for every persisted order, the total equals the sum over its persisted
\* order items of quantity x unit price.
C4_OrderTotalMatchesItems ==
    \A oid \in 1..Len(orders) : orders[oid].totalAmount = SumItems(ItemsOf(oid))

\* C5: a checkout whose card number fails the checksum is answered
\* VALIDATION_ERROR whatever the session, cart and stock are, and changes no
\* order, order item, stock value or cart record.
C5_InvalidCardRejectedFirst ==
    [][\A u \in Users, s \in Sessions \cup {NoSession}, card \in Cards :
        (resp'.op = "checkout" /\ CreateOrder(u, s, card) /\ ~isValidCardNumber(card))
        => /\ resp' = Resp("checkout", "VALIDATION_ERROR")
           /\ UNCHANGED <<stock, carts, orders, orderItems>>
    ]_vars

\* the card was refused although the cart could have been ordered
C5_Witness ==
    /\ resp = Resp("checkout", "VALIDATION_ERROR")
    /\ ~isValidCardNumber(CardTestInvalid)
    /\ carts["s1"].present
    /\ Len(carts["s1"].items) > 0
    /\ Validate(carts["s1"].items, stock, active, price).code = "OK"

\* C6: a checkout that reaches the cart load (its card passed the checksum)
\* and finds no session identifier, no stored cart or a stored cart without
\* lines is answered CART_EMPTY, creates no order or order item and changes no
\* stock value and no cart record.
C6_EmptyCartRejected ==
    [][\A u \in Users, s \in Sessions \cup {NoSession}, card \in Cards :
        (/\ resp'.op = "checkout"
         /\ CreateOrder(u, s, card)
         /\ isValidCardNumber(card)
         /\ (s = NoSession \/ ~carts[s].present \/ Len(carts[s].items) = 0))
        => /\ resp' = Resp("checkout", "CART_EMPTY")
           /\ UNCHANGED <<stock, carts, orders, orderItems>>
    ]_vars

\* refused for a cart record that is stored and holds no lines
C6_Witness ==
    /\ resp = Resp("checkout", "CART_EMPTY")
    /\ carts["s1"] = StoredCart(<<>>)
    /\ orders = <<>>

C8_AddRejected ==
    [][\A s \in Sessions, p \in Products, q \in Quantities :
        (resp'.op = "add" /\ AddItem(s, p, q))
        => /\ ~active[p] => (resp' = Resp("add", "NOT_FOUND") /\ carts' = carts)
           /\ (active[p] /\ OrderedQty(carts[s].items, p) + q > stock[p])
                  => (resp' = Resp("add", "OUT_OF_STOCK") /\ carts' = carts)
    ]_vars

\* every product is active and in stock, the session has no cart, and an Add
\* was refused with OUT_OF_STOCK: it asked for more than the stock
C8_Witness ==
    /\ resp = Resp("add", "OUT_OF_STOCK")
    /\ carts["s1"] = NoCart
    /\ \A p \in Products : active[p] /\ stock[p] >= 1

\* C9: for a session without a line for the active product p and q <= stock(p),
\* Add(p, q) succeeds and the cart read then holds exactly one line for p, with
\* quantity q; Remove(p) of an existing line succeeds and the cart read then
\* holds no line for p, and no line at all if p's was the only one.
C9_AddReadRemove ==
    [][\A s \in Sessions, p \in Products :
        /\ \A q \in Quantities :
              (/\ resp'.op = "add"
               /\ AddItem(s, p, q)
               /\ active[p]
               /\ ~HasLine(carts[s].items, p)
               /\ q <= stock[p])
              => /\ resp'.code = "OK"
                 /\ SelectSeq(CartView(s)', LAMBDA l : l.productId = p)
                        = <<[productId |-> p, quantity |-> q, price |-> price[p]]>>
        /\ (/\ resp'.op = "remove"
            /\ RemoveItem(s, p)
            /\ HasLine(carts[s].items, p))
           => /\ resp'.code = "OK"
              /\ ~HasLine(CartView(s)', p)
              /\ Len(carts[s].items) = 1 => CartView(s)' = <<>>
    ]_vars

\* the only line of a cart has just been removed
C9_Witness ==
    /\ resp = Resp("remove", "OK")
    /\ carts["s1"] = StoredCart(<<>>)

\* C10: Update(session, p, 0) and Remove(session, p) have the same outcome and
\* leave the same stored carts: VALIDATION_ERROR without a session identifier,
\* NOT_FOUND with the carts unchanged when the session has no line for p,
\* otherwise success with the line for p deleted and every other line kept in
\* place with its quantity.
C10_UpdateZeroIsRemove ==
    [][\A s \in Sessions \cup {NoSession}, p \in Products :
        ((resp'.op = "update" /\ UpdateItem(s, p, 0))
            \/ (resp'.op = "remove" /\ RemoveItem(s, p)))
        => IF s = NoSession
           THEN resp'.code = "VALIDATION_ERROR" /\ carts' = carts
           ELSE IF ~HasLine(carts[s].items, p)
           THEN resp'.code = "NOT_FOUND" /\ carts' = carts
           ELSE /\ resp'.code = "OK"
                /\ carts' = [carts EXCEPT ![s] = StoredCart(Without(carts[s].items, p))]
    ]_vars

\* an Update emptied the cart: only a quantity of 0 deletes a line
C10_Witness ==
    /\ resp = Resp("update", "OK")
    /\ carts["s1"] = StoredCart(<<>>)

\* C11: in every reachable state, also while and after requests on the same
\* session interleave, every stored cart has at most one line per productId
\* and every line's quantity is an integer >= 1.
C11_CartLinesWellFormed ==
    \A s \in Sessions : \A i \in 1..Len(carts[s].items) :
        /\ carts[s].items[i].quantity \in Nat \ {0}
        /\ \A j \in 1..Len(carts[s].items) :
               carts[s].items[i].productId = carts[s].items[j].productId => i = j

\* a request saved its copy over a cart that another request had changed
\* after the copy was read: the stored cart holds two lines, the request in
\* flight still holds a copy with none
C11_Witness ==
    /\ Len(carts["s1"].items) = 2
    /\ \E r \in Slots : cartReqs[r].pc = "saveCart" /\ Len(cartReqs[r].items) = 0

\* C12: right after a successful Add or Update of the line for product p the
\* stored quantity of that line is at most the stock of p the request read;
\* an Update of an existing line to a quantity above the stock of p is
\* answered OUT_OF_STOCK and leaves every stored cart as it was, for an
\* active product and for an inactive one.
C12_LineWithinStockRead ==
    [][\A s \in Sessions, p \in Products :
        /\ \A q \in Quantities :
              (resp'.op = "add" /\ AddItem(s, p, q) /\ resp'.code = "OK")
              => /\ HasLine(carts'[s].items, p)
                 /\ OrderedQty(carts'[s].items, p) <= stock[p]
        /\ \A q \in Quantities :
              (resp'.op = "update" /\ UpdateItem(s, p, q) /\ resp'.code = "OK")
              => /\ OrderedQty(carts'[s].items, p) = q
                 /\ q <= stock[p]
        /\ \A q \in Quantities :
              (/\ resp'.op = "update"
               /\ UpdateItem(s, p, q)
               /\ HasLine(carts[s].items, p)
               /\ q > stock[p])
              => (resp' = Resp("update", "OUT_OF_STOCK") /\ carts' = carts)
    ]_vars

\* an Update of the only line of the cart, whose product is no longer active,
\* was refused with OUT_OF_STOCK
C12_Witness ==
    /\ resp = Resp("update", "OUT_OF_STOCK")
    /\ Len(carts["s1"].items) = 1
    /\ ~active[carts["s1"].items[1].productId]
    /\ stock[carts["s1"].items[1].productId] < MaxQty

\* C13: Clear(session) succeeds whatever the stored cart is, also when there
\* is none, and leaves the session without lines (a read returns no items) and
\* the other sessions untouched; on a session that is already clear it
\* succeeds again and changes nothing, so twice is the same as once.
C13_ClearIdempotent ==
    [][\A s \in Sessions :
        (resp'.op = "clear" /\ ClearCart(s))
        => /\ resp' = Resp("clear", "OK")
           /\ carts' = [carts EXCEPT ![s] = NoCart]
           /\ CartView(s)' = <<>>
           /\ (carts[s] = NoCart => carts' = carts)
    ]_vars

\* a Clear has just succeeded and left no cart
C13_Witness ==
    /\ resp = Resp("clear", "OK")
    /\ carts["s1"] = NoCart

\* the login step of a request with the given username, password and salt
LoginStep(name, password, salt) == authResp'.op = "login" /\ Login(name, password, salt)

\* C14: a login for a user whose role is locked is answered ACCOUNT_LOCKED
\* whatever the password is, and changes nothing: no session row, no token,
\* no cookie, no stored credential.
C14_LockedLoginRefused ==
    [][\A name \in Usernames, password \in Passwords, salt \in Salts :
        (/\ LoginStep(name, password, salt)
         /\ UserByName(name) # 0
         /\ UserType[UserByName(name)] = "locked")
        => /\ authResp' = AccountLocked("login")
           /\ authResp'.token = NoToken /\ authResp'.cookie = NoToken
           /\ UNCHANGED <<users, sessions, tokens>>
    ]_vars

\* the locked account was refused while its stored credential is one that its
\* seeded password verifies
C14_Witness ==
    /\ authResp = AccountLocked("login")
    /\ PasswordValid("locked_user", "locked123", users[2])
    /\ \A row \in sessions : row.user_id # 2

\* C15: a user whose role is locked is never authenticated: no token names
\* such a user, no order belongs to one, and no order request is served to one.
C15_LockedNeverAuthenticated ==
    /\ \A token \in tokens : UserType[token.sub] # "locked"
    /\ \A oid \in 1..Len(orders) : UserType[orders[oid].userId] # "locked"
    /\ (authResp.op \in {"orders", "order"} /\ authResp.user # 0)
           => UserType[authResp.user] # "locked"

\* C16: for a non-locked account with a legacy credential, a login with the
\* seeded password succeeds and stores salt:key derived from that password;
\* once the credential is in hash format a login leaves it as it is, succeeds
\* with the password it was derived from and fails with INVALID_CREDENTIALS
\* with any other.
C16_LegacyMigratesOnce ==
    [][\A name \in Usernames, password \in Passwords, salt \in Salts :
        (LoginStep(name, password, salt) /\ UserByName(name) # 0
            /\ UserType[UserByName(name)] # "locked")
        => LET u == UserByName(name)
           IN /\ (users[u] = Legacy /\ testPasswords[name] = password)
                    => /\ authResp'.code = "OK" /\ authResp'.user = u
                       /\ users'[u] = hashPassword(password, salt)
                       /\ isNewHashFormat(users'[u])
                       /\ verifyPassword(password, users'[u])
              /\ isNewHashFormat(users[u])
                    => /\ users' = users
                       /\ verifyPassword(password, users[u])
                             => (authResp'.code = "OK" /\ authResp'.user = u)
                       /\ ~verifyPassword(password, users[u])
                             => authResp' = InvalidCredentials("login")
    ]_vars

\* the account was migrated by a login and a later login went through the
\* hash path: two session rows of different times, credential in hash format
C16_Witness ==
    /\ users[1] = hashPassword("standard123", "salt2")
    /\ authResp.op = "login" /\ authResp.code = "OK" /\ authResp.user = 1
    /\ Cardinality({row \in sessions : row.user_id = 1}) = 2

\* C17: per account the stored credential only moves from legacy to hash
\* format and is written at most once: no step of a login, alone or
\* interleaved with another login, changes a credential that is in hash
\* format, and a login that fails changes no credential.
C17_MigratesOnce ==
    [][/\ \A u \in AccountIds : isNewHashFormat(users[u]) => users'[u] = users[u]
       /\ authResp' # authResp /\ authResp'.code # "OK" => users' = users
    ]_vars

\* C18: a login with a username that has no row and a login with the username
\* of a non-locked account and a password that fails its test get the same
\* response (INVALID_CREDENTIALS, 401, one message, no token, no cookie) and
\* change nothing.
C18_UnknownUserLikeWrongPassword ==
    [][\A name \in Usernames, password \in Passwords, salt \in Salts :
        (/\ LoginStep(name, password, salt)
         /\ \/ UserByName(name) = 0
            \/ /\ UserType[UserByName(name)] # "locked"
               /\ ~PasswordValid(name, password, users[UserByName(name)]))
        => /\ authResp' = InvalidCredentials("login")
           /\ UNCHANGED <<users, sessions, tokens>>
    ]_vars

\* a login was refused with INVALID_CREDENTIALS while accounts with a
\* credential of either format exist
C18_Witness ==
    /\ authResp = InvalidCredentials("login")
    /\ users[1] = Legacy
    /\ isNewHashFormat(users[3])

\* what C19 and its amended form share: a refresh succeeds only for a
\* well-signed refresh token with a session row of its hash that is unexpired
\* and belongs to the token's user, and then mints an access token for that
\* user; every other refresh is answered UNAUTHORIZED (401) and changes
\* nothing; a logout leaves no row with the hash of its token.
RefreshNeedsLiveRow ==
    /\ authResp'.op = "refresh" =>
          \A cookie \in Cookies : Refresh(cookie) =>
              IF authResp'.code = "OK"
              THEN /\ \E row \in sessions :
                         /\ row.refresh_token_hash = hashToken(cookie)
                         /\ row.expires_at > now
                         /\ row.user_id = cookie.sub
                         /\ authResp'.user = row.user_id
                   /\ cookie.type = "refresh"
                   /\ authResp'.token = generateAccessToken(cookie.sub, now)
              ELSE /\ authResp'.code = "UNAUTHORIZED" /\ authResp'.status = 401
                   /\ UNCHANGED <<users, sessions, tokens>>
    /\ authResp'.op = "logout" =>
          \A cookie \in Cookies \ {NoToken} : Logout(cookie) =>
              \A row \in sessions' : row.refresh_token_hash # hashToken(cookie)

\* C19 as claimed: with the above, a refresh with a token that a logout was
\* sent with fails with UNAUTHORIZED ever after.
C19_Original ==
    [][/\ RefreshNeedsLiveRow
       /\ authResp'.op = "refresh" =>
             \A cookie \in revoked : Refresh(cookie) => authResp'.code = "UNAUTHORIZED"
    ]_vars

\* C19 (amended): with the above, after a logout the token's row comes back
\* only by a login of the same user at the token's own issue time, which signs
\* the identical token again; short of that every refresh with it fails.
C19_RefreshNeedsLiveRecord ==
    [][/\ RefreshNeedsLiveRow
       /\ authResp'.op = "refresh" =>
             \A cookie \in revoked :
                 (Refresh(cookie) /\ LiveSessions(cookie) = {})
                     => authResp'.code = "UNAUTHORIZED"
       /\ sessions' # sessions =>
             \A cookie \in revoked :
                 (LiveSessions(cookie) = {} /\ LiveSessions(cookie)' # {})
                     => /\ authResp'.op = "login" /\ authResp'.code = "OK"
                        /\ authResp'.cookie = cookie
                        /\ cookie.iat = now /\ cookie.sub = authResp'.user
    ]_vars

\* a refresh that carried a cookie was refused after the only refresh token
\* minted so far was logged out and no session row is left
C19_Witness ==
    /\ authResp = Unauthorized("refresh", "Invalid or expired refresh token")
    /\ revoked = {generateRefreshToken(1, 0)}
    /\ sessions = {}
    /\ \A token \in tokens : token.type = "refresh" => token \in revoked

\* C20: GET /orders/:id serves an order only to its owner or to an admin and
\* answers anyone else NOT_FOUND exactly as for an id without an order; GET
\* /orders lists exactly the caller's own orders; a request the middleware
\* does not authenticate is answered UNAUTHORIZED and changes nothing.
C20_OrdersOwnerOrAdmin ==
    [][/\ (authResp'.op = "order" /\ authResp' # authResp) =>
          /\ authResp'.code \in {"OK", "NOT_FOUND", "UNAUTHORIZED"}
          /\ authResp'.code = "OK" =>
                \A oid \in authResp'.data :
                    /\ oid \in 1..Len(orders)
                    /\ \/ orders[oid].userId = authResp'.user
                       \/ UserType[authResp'.user] = "admin"
          /\ authResp'.code = "NOT_FOUND" =>
                authResp' = NotFound("order", "Order not found")
          /\ authResp'.code = "UNAUTHORIZED" => authResp'.status = 401
          /\ authResp'.code # "UNAUTHORIZED" =>
                \A header \in Headers :
                    ~authMiddleware(header).ok
                       => \A oid \in 1..MaxOrders + 1 : ~GetOrder(header, oid)
          /\ authResp'.code = "NOT_FOUND" =>
                \A header \in Headers, oid \in 1..Len(orders) :
                    LET caller == authMiddleware(header)
                    IN (caller.ok /\ (caller.userType = "admin" \/ orders[oid].userId = caller.id))
                          => ~GetOrder(header, oid)
          /\ UNCHANGED <<storeVars, users, sessions, tokens>>
       /\ (authResp'.op = "orders" /\ authResp' # authResp) =>
          /\ authResp'.code \in {"OK", "UNAUTHORIZED"}
          /\ authResp'.code = "OK" =>
                authResp'.data =
                    {oid \in 1..Len(orders) : orders[oid].userId = authResp'.user}
          /\ authResp'.code = "OK" =>
                \A header \in Headers :
                    ~authMiddleware(header).ok => ~ListOrders(header)
          /\ UNCHANGED <<storeVars, users, sessions, tokens>>
       /\ resp'.code = "UNAUTHORIZED" =>
          \A header \in Headers :
              (PostOrder(header, "s1", CardTestValid) /\ ~authMiddleware(header).ok)
                 => /\ resp' = Resp("checkout", "UNAUTHORIZED")
                    /\ UNCHANGED <<stock, carts, orders, orderItems, users, sessions, tokens>>
       /\ orders' # orders =>
          \A header \in Headers :
              ~authMiddleware(header).ok => ~PostOrder(header, "s1", CardTestValid)
    ]_vars

\* an admin has just read by id an order that belongs to the standard user
C20_Witness ==
    /\ authResp.op = "order" /\ authResp.code = "OK"
    /\ authResp.user = 3
    /\ authResp.data = {1}
    /\ Len(orders) = 1 /\ orders[1].userId = 1

\* the operations of the admin-only routes, as the responses name them
AdminOps == {"stock", "product", "delete", "status", "adminRead"}

\* C21: a request to an admin-only operation with valid credentials of a
\* non-admin user, in a Bearer access token or in a Basic header, is answered
\* FORBIDDEN, a request with no or with invalid credentials is answered
\* UNAUTHORIZED, and neither changes a product or an order.
C21_NonAdminForbidden ==
    [][resp'.op \in AdminOps =>
         /\ resp'.code # "FORBIDDEN" =>
               \A header \in AdminHeaders :
                   (authMiddleware(header).ok /\ authMiddleware(header).userType # "admin")
                      => ~AdminRequest(header)
         /\ resp'.code # "UNAUTHORIZED" =>
               \A header \in AdminHeaders : ~authMiddleware(header).ok => ~AdminRequest(header)
         /\ resp'.code \in {"FORBIDDEN", "UNAUTHORIZED"} =>
               UNCHANGED <<stock, active, price, orders, orderItems>>
    ]_vars

\* GET /api/orders/:id, the body of an order that exists: the order row and
\* the order_items rows of the order
OrderView(oid) == [order |-> orders[oid], items |-> ItemsOf(oid)]

\* C22: order items are immutable once written: no step of an admin price or
\* product edit, stock update, soft delete, order status update or further
\* checkout changes the productId, quantity or unit price of a written order
\* item, the owner or the total of a written order, so a fetch of the order
\* keeps returning the unit prices written at creation.
C22_OrderItemsImmutable ==
    [][/\ Len(orderItems') >= Len(orderItems)
       /\ \A i \in 1..Len(orderItems) : orderItems'[i] = orderItems[i]
       /\ Len(orders') >= Len(orders)
       /\ \A oid \in 1..Len(orders) :
             /\ orders'[oid].totalAmount = orders[oid].totalAmount
             /\ orders'[oid].userId = orders[oid].userId
             /\ \A i \in 1..Len(OrderView(oid).items) :
                   OrderView(oid)'.items[i] = OrderView(oid).items[i]
    ]_vars

\* two complete orders exist, the first one shipped, and the catalog price of
\* an ordered product is no longer the unit price its order item holds
C22_Witness ==
    /\ Len(orders) = 2
    /\ \A r \in Slots : reqs[r].pc = "done" /\ reqs[r].code = "OK"
    /\ orders[1].status = "shipped"
    /\ \E i \in 1..Len(orderItems) :
          /\ price[orderItems[i].productId] # orderItems[i].unitPrice
          /\ ~active[orderItems[i].productId]
    /\ \A oid \in 1..2 : orders[oid].totalAmount = SumItems(OrderView(oid).items)

\* what a checkout request that failed has left: its order header with the
\* full total, and of its items the first i - 1 or the first i
FailedLeft(q) ==
    /\ q.orderId \in 1..Len(orders)
    /\ orders[q.orderId] = OrderRow(q.user, q.totalAmount)
    /\ \E k \in {q.i - 1, q.i} \cap 0..Len(q.orderItems) :
          ItemsOf(q.orderId) = SubSeq(ItemRows(q.orderId, q.orderItems), 1, k)

\* C23: a storage failure after the order header is written and before the
\* cart is cleared is answered as an error without compensation or retry: the
\* failing step changes no stored data, the header and the items and
\* decrements written before stay for good, the rest is never written, the
\* session's cart is left as it was, and a cart is cleared only by a request
\* that has written every item and every decrement.
C23_FailureLeavesPartialOrder ==
    [][/\ \A r \in Slots :
             /\ (reqs[r].pc # "failed" /\ reqs'[r].pc = "failed") =>
                   /\ UNCHANGED <<stock, active, price, carts, orders, orderItems>>
                   /\ resp' = Resp("checkout", "INTERNAL_ERROR")
                   /\ reqs[r].orderId # 0
             /\ reqs[r].pc = "failed" => reqs'[r] = reqs[r]
             /\ reqs'[r].pc = "failed" => FailedLeft(reqs[r])'
       /\ \A oid \in 1..Len(orders) : Len(orders') >= oid /\ orders'[oid] = orders[oid]
       /\ \A i \in 1..Len(orderItems) :
             Len(orderItems') >= i /\ orderItems'[i] = orderItems[i]
       /\ \A p \in Products : stock'[p] <= stock[p]
       /\ carts' # carts =>
             \E r \in Slots :
                 /\ reqs[r].pc = "deleteCart" /\ reqs'[r].pc = "fetch"
                 /\ reqs[r].i = Len(reqs[r].orderItems) + 1
                 /\ ItemsOf(reqs[r].orderId) = ItemRows(reqs[r].orderId, reqs[r].orderItems)
                 /\ carts' = [carts EXCEPT ![reqs[r].session] = NoCart]
    ]_vars

\* the only request so far failed between the two lines of its cart: the
\* header holds the total of both lines, the first item is written and its
\* stock decremented, the second is not, and the cart still holds both lines
C23_Witness ==
    /\ reqs[1].pc = "failed" /\ reqs[2].pc = "idle"
    /\ Len(orders) = 1 /\ orders[1].totalAmount = CatalogPrice[1] + CatalogPrice[2]
    /\ orderItems = <<OrderItem(1, 1, 1, CatalogPrice[1])>>
    /\ stock = [p \in Products |-> IF p = 1 THEN MaxStock - 1 ELSE MaxStock]
    /\ carts["s1"] = StoredCart(<<Line(1, 1), Line(2, 1)>>)
    /\ resp = Resp("checkout", "INTERNAL_ERROR")

\* C24: when two mutations of one session's cart have both read the cart
\* before either writes, each write succeeds and stores exactly the writer's
\* own copy, that is its change applied to the cart it read: the first write
\* does not reach the copy of the request still in flight, and the second
\* write replaces the stored cart with that copy, so the change of the first
\* writer is lost.
C24_LastWriteWins ==
    [][\A r \in Slots :
         (cartReqs[r].pc = "saveCart" /\ cartReqs'[r].pc = "idle")
         => /\ carts'[cartReqs[r].session] = StoredCart(cartReqs[r].items)
            /\ resp' = Resp(cartReqs[r].op, "OK")
            /\ \A o \in Slots \ {r} : cartReqs'[o] = cartReqs[o]
            /\ \A s \in Sessions \ {cartReqs[r].session} : carts'[s] = carts[s]
    ]_vars

\* of two Add(1, 1) that both read the empty cart, the first has stored the
\* line with quantity 1 and answered OK; the second is about to store its own
\* copy, again the line with quantity 1
C24_Witness ==
    /\ carts["s1"] = StoredCart(<<Line(1, 1)>>)
    /\ resp = Resp("add", "OK")
    /\ \E r \in Slots :
          /\ cartReqs[r].pc = "saveCart" /\ cartReqs[r].op = "add"
          /\ cartReqs[r].items = <<Line(1, 1)>>

\* the operations of the cart routes, as the responses name them
CartOpNames == {"get", "add", "update", "remove", "clear"}

\* a cart operation of session s takes the step
CartStepOf(s) ==
    \/ GetCart(s)
    \/ \E p \in Products, q \in Quantities : AddItem(s, p, q)
    \/ \E p \in Products, q \in 0..MaxQty : UpdateItem(s, p, q)
    \/ \E p \in Products : RemoveItem(s, p)
    \/ ClearCart(s)

\* C25: a cart operation (read, add, update, remove, clear) changes no
\* product's stock and no cart of another session; the stock test reserves
\* nothing, so the lines two sessions hold for one product may together
\* exceed its stock; stock changes only in a checkout that succeeds.
C25_CartOpsReserveNothing ==
    [][/\ resp'.op \in CartOpNames =>
             /\ UNCHANGED <<stock, active, price, orders, orderItems>>
             /\ \A s \in Sessions :
                   CartStepOf(s) => \A o \in Sessions \ {s} : carts'[o] = carts[o]
       /\ stock' # stock => resp' = Resp("checkout", "OK")
    ]_vars

\* the Add of one session has just succeeded for a product of which the
\* other session holds a line too; the two quantities together exceed the
\* product's stock, which no checkout has lowered
C25_Witness ==
    /\ resp = Resp("add", "OK")
    /\ orders = <<>>
    /\ \E p \in Products :
          /\ HasLine(carts["s1"].items, p) /\ HasLine(carts["s2"].items, p)
          /\ OrderedQty(carts["s1"].items, p) + OrderedQty(carts["s2"].items, p) > stock[p]
          /\ OrderedQty(carts["s1"].items, p) <= stock[p]
          /\ OrderedQty(carts["s2"].items, p) <= stock[p]

\* C26: one cart is turned into at most one order: of two checkout requests
\* submitted for the same contents of a session's cart, also interleaved, at
\* most one writes an order, so the lines are ordered and their stock is
\* decremented at most once.  (No request refills a cart here, so two orders
\* of one session come from the same cart contents.)
C26_OneOrderPerCart ==
    \A r \in Slots, o \in Slots :
        (r # o /\ reqs[r].orderId # 0 /\ reqs[o].orderId # 0)
        => reqs[r].session # reqs[o].session

\* C27: a successful checkout removes from the session's cart only what it
\* ordered: when it clears the cart, every line stored in the cart (by a
\* successful Add or Update, also one that ran after the checkout read the
\* cart) is an order item of the created order, with its quantity, or is
\* still in the cart afterwards.
C27_CheckoutClearsOnlyOrdered ==
    [][\A r \in Slots :
         (reqs[r].pc = "deleteCart" /\ reqs'[r].pc = "fetch")
         => LET s == reqs[r].session
                rows == ItemsOf(reqs[r].orderId)
            IN \A i \in 1..Len(carts[s].items) :
                  \/ \E k \in 1..Len(rows) :
                        /\ rows[k].productId = carts[s].items[i].productId
                        /\ rows[k].quantity = carts[s].items[i].quantity
                  \/ \E j \in 1..Len(carts'[s].items) :
                        carts'[s].items[j] = carts[s].items[i]
    ]_vars

\* C28: after any sequence of successful Add and Update operations every
\* stored cart line's quantity is at most the maximum quantity the request
\* schemas allow (MaxQty here, 99 in addToCartSchema / updateCartItemSchema).
C28_LineWithinSchemaMax ==
    \A s \in Sessions : \A i \in 1..Len(carts[s].items) :
        carts[s].items[i].quantity <= MaxQty

\* C29: in the client cart store, once no call is in flight the list holds at
\* most one line per product and every line's quantity is the quantity the
\* calls the server accepted produced (the server's cart of the session),
\* also when calls for one product were in flight together and one failed.
C29_ClientMatchesAccepted ==
    (\A r \in Slots : calls[r].pc = "idle") =>
        /\ \A i, j \in 1..Len(cartStore) :
              cartStore[i].productId = cartStore[j].productId => i = j
        /\ \A i \in 1..Len(cartStore) :
              cartStore[i].quantity =
                  LineQty(getCart(ClientSession), cartStore[i].productId)

\* C30: no edge-cache entry of a public product URL (list, by slug, by id)
\* predates an admin change (stock update, edit, soft delete): every entry
\* holds what the route reads from the database now, so that the next public
\* read is not answered with stale data; and no response of the cart, order,
\* auth or admin routes is ever stored in the edge cache.
C30_EdgeCacheFresh ==
    /\ \A u \in ProductUrls : cache[u].hit => cache[u].data = Handler(u).data
    /\ \A u \in PrivateUrls : ~cache[u].hit

====
